---- MODULE Spec2Model ----
(***************************************************************************)
(* A model of the autodoist labeling engine: one engine pass               *)
(* (LabelingEngine.run), the write queue of the client and the main loop   *)
(* that alternates passes and flushes, the type-suffix codec and the       *)
(* singleton-label winner selection.                                       *)
(*                                                                         *)
(* Names and contents are sequences of one-character strings, so that      *)
(* suffix parsing and the header test work on the text itself.  Optional   *)
(* values (Python None) are sequences of length at most one: <<>> is None  *)
(* and <<v>> is the value v.  Optional strings that the code only tests    *)
(* for truth (config.label, parent_type) use "" for None.                  *)
(***************************************************************************)
EXTENDS Integers, Sequences, FiniteSets, TLC

VARIABLES
    project,    \* the one project of the account: [name, is_inbox_project]
    sections,   \* section id -> [name]
    tasks,      \* task id -> the task as the server holds it
    config,     \* Config: [label, focus_label, hide_future]
    db,         \* MetadataDB: [type_str, parent_type, singleton]
    queue,      \* TodoistClient._queue: sequence of [id, labels]
    updated_ids, \* TodoistClient._updated_ids: ids written through REST
    pc,         \* position of the main loop: "run" or "flush"
    now,        \* wall clock (epoch ms, scaled)
    last,       \* what the latest pass saw and returned
    call        \* a direct call of a function (arguments, result), or what
                \* the user did last

vars ==
    <<project, sections, tasks, config, db, queue, updated_ids, pc, now, last, call>>

(***************************************************************************)
(* Bounds of the model.                                                    *)
(***************************************************************************)
NumTasks == 3
NumSections == 1
FirstTaskId == 9
MaxTime == 3
FarDays == 7         \* a due date this many days ahead

Tasks == FirstTaskId..(FirstTaskId + NumTasks - 1)
Sections == 1..NumSections
NoParent == 0        \* parent_id None (normalised to '' by the pass)
NoSectionId == 0     \* section_id None, the id of NoSection
ProjectId == 1

None == <<>>
Some(v) == <<v>>

(***************************************************************************)
(* Config defaults.                                                        *)
(***************************************************************************)
s_suffix == "-"
p_suffix == "="

(***************************************************************************)
(* Sequence helpers.                                                       *)
(***************************************************************************)
Contains(s, x) == \E i \in 1..Len(s) : s[i] = x

Range(s) == {s[i] : i \in 1..Len(s)}

\* list.remove(x): drops the first occurrence only
RemoveFirst(s, x) ==
    LET i == CHOOSE k \in 1..Len(s) : s[k] = x /\ \A j \in 1..(k - 1) : s[j] # x
    IN SubSeq(s, 1, i - 1) \o SubSeq(s, i + 1, Len(s))

StartsWith(s, prefix) ==
    Len(s) >= Len(prefix) /\ SubSeq(s, 1, Len(prefix)) = prefix

\* str(n) of a non-negative integer, as its decimal digits
RECURSIVE Digits(_)
Digits(n) == IF n < 10 THEN <<n>> ELSE Digits(n \div 10) \o <<n % 10>>

\* Python's < on strings (here: strings of digits)
RECURSIVE StrLess(_, _)
StrLess(a, b) ==
    IF a = <<>> THEN b # <<>>
    ELSE IF b = <<>> THEN FALSE
    ELSE IF a[1] # b[1] THEN a[1] < b[1]
    ELSE StrLess(Tail(a), Tail(b))

(***************************************************************************)
(* types.py                                                                *)
(***************************************************************************)
normalize_parent_id(parent_id) ==
    IF parent_id = NoParent THEN <<>> ELSE Digits(parent_id)

is_parentless(parent_id) == parent_id = NoParent

pad_type_str_to_three(type_str) ==
    IF Len(type_str) >= 3 THEN SubSeq(type_str, 1, 3)
    ELSE IF Len(type_str) = 2 THEN <<"x">> \o type_str
    ELSE IF Len(type_str) = 1 THEN <<"x", "x">> \o type_str
    ELSE None

(***************************************************************************)
(* labeling.py: the suffix codec and the resolver                          *)
(***************************************************************************)
\* the places where '$' lets a match end: the end of the string and the
\* place before a newline that ends the string
dollar_ends(name) ==
    {Len(name)} \cup (IF name # <<>> /\ name[Len(name)] = "\n"
                      THEN {Len(name) - 1} ELSE {})

\* the matches <<first, last>> of '[sp]{1,width}$' in name
suffix_matches(name, s, p, width) ==
    {m \in (1..Len(name)) \X dollar_ends(name) :
        /\ m[1] <= m[2]
        /\ m[2] - m[1] + 1 <= width
        /\ \A k \in m[1]..m[2] : name[k] \in {s, p}}

\* re.search: the leftmost match, and of those the longest
search_suffix(name, matches) ==
    LET m == CHOOSE a \in matches :
                \A b \in matches : a[1] < b[1] \/ (a[1] = b[1] /\ a[2] >= b[2])
    IN SubSeq(name, m[1], m[2])

\* the expansion of a short suffix, the s/p conversion and the padding
type_of_suffix(suffix, s, p, width) ==
    LET expanded == suffix \o [i \in 1..(width - Len(suffix)) |-> suffix[Len(suffix)]]
    IN pad_type_str_to_three(
            [i \in 1..Len(expanded) |-> IF expanded[i] = s THEN "s" ELSE "p"])

\* None without a match, else the code of the match found
type_of_matches(name, matches, s, p, width) ==
    IF matches = {} THEN None
    ELSE type_of_suffix(search_suffix(name, matches), s, p, width)

parse_type_suffix(name, s, p, width) ==
    type_of_matches(name, suffix_matches(name, s, p, width), s, p, width)

\* variant: the positions a code leaves at x are taken from the next level
resolve_dominant_type_filled(task_type, section_type, project_type) ==
    IF task_type # None
    THEN [i \in 1..3 |-> IF task_type[i] = "x" /\ section_type # None
                         THEN section_type[i] ELSE task_type[i]]
    ELSE IF section_type # None
    THEN [i \in 1..3 |-> IF section_type[i] = "x" /\ project_type # None
                         THEN project_type[i] ELSE section_type[i]]
    ELSE project_type

resolve_dominant_type(task_type, section_type, project_type) ==
    IF task_type # None THEN task_type
    ELSE IF section_type # None THEN section_type
    ELSE project_type

is_header_task(content) == StartsWith(content, <<"*">>)

\* section is a section id, NoSectionId for the NoSection placeholder
is_section_disabled(S, section) ==
    IF section = NoSectionId THEN FALSE
    ELSE LET name == S[section].name
         IN name # <<>> /\ (name[1] = "*" \/ name[Len(name)] = "*")

\* the characters \s matches, of those the model's texts hold
Whitespace == {" ", "\n"}

\* the text behind the whitespace a pattern's \s* takes
RECURSIVE SkipSpace(_)
SkipSpace(text) ==
    IF text # <<>> /\ text[1] \in Whitespace THEN SkipSpace(Tail(text)) ELSE text

\* what (.*) takes: the text up to the first newline
RECURSIVE FirstLine(_)
FirstLine(text) ==
    IF text = <<>> \/ text[1] = "\n" THEN <<>>
    ELSE <<text[1]>> \o FirstLine(Tail(text))

NoCommand == [header_all |-> FALSE, unheader_all |-> FALSE, new_name |-> None]

\* text: the content of a task or the name of a section or project;
\* new_name is None or Some(the text with the command prefix removed)
check_header_command(text) ==
    IF text = <<>> THEN NoCommand
    ELSE IF StartsWith(text, <<"-", "*">>)
         THEN [header_all |-> FALSE, unheader_all |-> TRUE,
               new_name |-> Some(FirstLine(SkipSpace(SubSeq(text, 3, Len(text)))))]
    ELSE IF StartsWith(text, <<"*", "*">>)
         THEN [header_all |-> TRUE, unheader_all |-> FALSE,
               new_name |-> Some(FirstLine(SkipSpace(SubSeq(text, 3, Len(text)))))]
    ELSE NoCommand

(***************************************************************************)
(* db.py: the entities table and the singleton state table.  A missing     *)
(* row reads as NULL, so each table is a total function with NULL entries. *)
(***************************************************************************)
EntityKeys ==
    {<<"project", ProjectId>>} \cup {<<"section", s>> : s \in Sections}
        \cup {<<"task", t>> : t \in Tasks}

EmptyDB ==
    [type_str |-> [k \in EntityKeys |-> None],
     parent_type |-> [t \in Tasks |-> ""],
     singleton |-> [t \in Tasks |-> [is_active |-> FALSE, assigned_at |-> None]],
     history |-> <<>>]

get_type_str(d, kind, id) == d.type_str[<<kind, id>>]

set_type_str(d, kind, id, type_str) ==
    [d EXCEPT !.type_str[<<kind, id>>] = type_str]

get_parent_type(d, t) == d.parent_type[t]

set_parent_type(d, t, parent_type) == [d EXCEPT !.parent_type[t] = parent_type]

clear_task_types(d, t) ==
    [d EXCEPT !.type_str[<<"task", t>>] = None, !.parent_type[t] = ""]

get_active_singleton_tasks(d) == {t \in Tasks : d.singleton[t].is_active}

get_singleton_assigned_at(d, t) == d.singleton[t].assigned_at

\* assigned_at None keeps the stored assigned_at
set_singleton_state(d, t, is_active, assigned_at) ==
    [d EXCEPT !.singleton[t] =
        [is_active |-> is_active,
         assigned_at |-> IF assigned_at = None THEN @.assigned_at ELSE assigned_at]]

\* the comparison of the parsed type with the stored one, and the save
save_entity_type(d, kind, id, current_type) ==
    LET old_type == get_type_str(d, kind, id)
        changed == old_type # current_type
    IN [type_str |-> current_type,
        changed |-> changed,
        db |-> IF changed THEN set_type_str(d, kind, id, current_type) ELSE d]

\* focus_history: the row ids are the positions in d.history.  The ids of
\* the open sessions of (label_name, t)
open_sessions(d, label_name, t) ==
    {i \in 1..Len(d.history) :
        /\ d.history[i].label_name = label_name
        /\ d.history[i].task_id = t
        /\ d.history[i].cleared_at = None}

\* ORDER BY assigned_at DESC, id DESC LIMIT 1
latest_open_session(d, label_name, t) ==
    CHOOSE i \in open_sessions(d, label_name, t) :
        \A j \in open_sessions(d, label_name, t) :
            \/ d.history[j].assigned_at < d.history[i].assigned_at
            \/ d.history[j].assigned_at = d.history[i].assigned_at /\ j <= i

\* a variant that opens a session whether or not one is open
start_singleton_session_always(d, label_name, t, assigned_at) ==
    [d EXCEPT !.history =
        Append(@, [label_name |-> label_name, task_id |-> t,
                   assigned_at |-> assigned_at, cleared_at |-> None])]

start_singleton_session(d, label_name, t, assigned_at) ==
    IF open_sessions(d, label_name, t) # {} THEN d
    ELSE [d EXCEPT !.history =
            Append(@, [label_name |-> label_name, task_id |-> t,
                       assigned_at |-> assigned_at, cleared_at |-> None])]

end_singleton_session(d, label_name, t, cleared_at) ==
    IF open_sessions(d, label_name, t) = {} THEN d
    ELSE [d EXCEPT !.history[latest_open_session(d, label_name, t)].cleared_at =
                        Some(cleared_at)]

\* [type_str, changed, db]
get_entity_type(d, kind, id, name, width) ==
    save_entity_type(d, kind, id, parse_type_suffix(name, s_suffix, p_suffix, width))

(***************************************************************************)
(* singleton.py                                                            *)
(***************************************************************************)
\* T[t].updated_at is the epoch-ms value of the task's updated_at, None
\* when the field is absent or does not parse
task_updated_epoch_ms(T, t) == T[t].updated_at

\* a variant whose tuple puts the updated-at time first
rank_updated_first(T, assigned_lookup, t) ==
    LET assigned_at == IF t \in DOMAIN assigned_lookup
                       THEN assigned_lookup[t] ELSE None
        assigned_rank == IF assigned_at # None THEN assigned_at[1] ELSE -1
        updated_rank == task_updated_epoch_ms(T, t)
    IN <<IF updated_rank # None THEN updated_rank[1] ELSE -1, assigned_rank,
         Digits(t)>>

\* rank(task): (assigned_at or -1, updated-at or -1, str(id))
rank(T, assigned_lookup, t) ==
    LET assigned_at == IF t \in DOMAIN assigned_lookup
                       THEN assigned_lookup[t] ELSE None
        assigned_rank == IF assigned_at # None THEN assigned_at[1] ELSE -1
        updated_rank == task_updated_epoch_ms(T, t)
    IN <<assigned_rank, IF updated_rank # None THEN updated_rank[1] ELSE -1,
         Digits(t)>>

\* Python's < on the rank tuples
RankLess(r1, r2) ==
    \/ r1[1] < r2[1]
    \/ r1[1] = r2[1] /\ r1[2] < r2[2]
    \/ r1[1] = r2[1] /\ r1[2] = r2[2] /\ StrLess(r1[3], r2[3])

\* max(tasks, key=rank): the first element no other element outranks
MaxByRank(T, assigned_lookup, cand) ==
    LET r(i) == rank(T, assigned_lookup, cand[i])
        i == CHOOSE k \in 1..Len(cand) :
                /\ \A j \in 1..Len(cand) : ~RankLess(r(k), r(j))
                /\ \A j \in 1..(k - 1) : RankLess(r(j), r(k))
    IN cand[i]

\* cand: the candidate task ids in list order; the result is None or Some(id)
choose_singleton_winner(T, cand, sticky_task_id, assigned_at_by_task_id, preferred_task_id) ==
    IF cand = <<>> THEN None
    ELSE IF preferred_task_id # None /\ Contains(cand, preferred_task_id[1])
         THEN preferred_task_id
    ELSE IF sticky_task_id # None /\ Contains(cand, sticky_task_id[1])
         THEN sticky_task_id
    ELSE Some(MaxByRank(T, assigned_at_by_task_id, cand))

(***************************************************************************)
(* labeling.py: LabelingEngine.  The engine state e of one pass is         *)
(*   desired_labels   task id -> desired label list (the tracked tasks)    *)
(*   desired_keys     the tracked task ids in insertion order              *)
(*   db               the metadata store as written so far                 *)
(*   section_found, parentless_found   the first-found flags               *)
(*   winner           the winner the reconciler chose, None when it chose  *)
(*                    none                                                 *)
(*   selected         the tasks the parentless rule decided to label       *)
(*                    (should_label)                                       *)
(*   received         the children a subtask cascade added the label to    *)
(*   content          task id -> the content the pass assigned to its      *)
(*                    local copy of the task (task.content = new_content)  *)
(*   rest             the REST updates made so far: [kind, id, text]       *)
(*   header_all_p, unheader_all_p   the command of the project, which the  *)
(*                    code hands down as arguments                         *)
(* _original_labels[t] is always the snapshot's T[t].labels, which the     *)
(* pass never mutates, so it is read from T.                               *)
(***************************************************************************)
NewEngine(d) ==
    [desired_labels |-> <<>>, desired_keys |-> <<>>, db |-> d,
     section_found |-> FALSE, parentless_found |-> FALSE, winner |-> None,
     selected |-> {}, received |-> {}, content |-> <<>>, rest |-> <<>>,
     header_all_p |-> FALSE, unheader_all_p |-> FALSE, type_changed |-> {}]

\* get_entity_type's second result: the lookup ty of the entity was a change
note_type_changed(e, ty, kind, id) ==
    IF ty.changed
    THEN [e EXCEPT !.db = ty.db, !.type_changed = @ \cup {<<kind, id>>}]
    ELSE [e EXCEPT !.db = ty.db]

\* task.content of the pass's local copy of task t
local_content(e, T, t) ==
    IF t \in DOMAIN e.content THEN e.content[t] ELSE T[t].content

\* update_task_via_rest, update_section_via_rest, update_project_via_rest
update_via_rest(e, kind, id, text) ==
    [e EXCEPT !.rest = Append(@, [kind |-> kind, id |-> id, text |-> text])]

get_current_labels(e, T, t) ==
    IF t \in DOMAIN e.desired_labels THEN e.desired_labels[t] ELSE T[t].labels

SetDesired(e, t, labels) ==
    [e EXCEPT
        !.desired_labels = [k \in DOMAIN @ \cup {t} |-> IF k = t THEN labels ELSE @[k]],
        !.desired_keys = IF t \in DOMAIN e.desired_labels THEN @ ELSE Append(@, t)]

\* a variant that starts the desired list afresh with the label
add_label_alone(e, T, t, label) ==
    LET current == get_current_labels(e, T, t)
    IN IF ~Contains(current, label) THEN SetDesired(e, t, <<label>>)
       ELSE e

add_label(e, T, t, label) ==
    LET current == get_current_labels(e, T, t)
    IN IF ~Contains(current, label) THEN SetDesired(e, t, Append(current, label))
       ELSE e

remove_label(e, T, t, label) ==
    LET current == get_current_labels(e, T, t)
    IN IF Contains(current, label) THEN SetDesired(e, t, RemoveFirst(current, label))
       ELSE e

\* the variant that queues every tracked task, changed or not
RECURSIVE commit_every_tracked(_, _, _)
commit_every_tracked(e, T, keys) ==
    IF keys = <<>> THEN <<>>
    ELSE LET t == Head(keys)
             desired == e.desired_labels[t]
         IN <<[id |-> t, labels |-> desired]>> \o commit_every_tracked(e, T, Tail(keys))

\* the queued updates, in the dict's insertion order
RECURSIVE commit_label_changes(_, _, _)
commit_label_changes(e, T, keys) ==
    IF keys = <<>> THEN <<>>
    ELSE LET t == Head(keys)
             desired == e.desired_labels[t]
             rest == commit_label_changes(e, T, Tail(keys))
         IN IF Range(desired) # Range(T[t].labels)
            THEN <<[id |-> t, labels |-> desired]>> \o rest
            ELSE rest

\* remove the label from every task of list and clear its stored types
RECURSIVE clean_tasks(_, _, _, _)
clean_tasks(e, T, list, label) ==
    IF list = <<>> THEN e
    ELSE LET e1 == remove_label(e, T, Head(list), label)
         IN clean_tasks([e1 EXCEPT !.db = clear_task_types(@, Head(list))],
                        T, Tail(list), label)

RECURSIVE remove_label_all(_, _, _, _)
remove_label_all(e, T, list, label) ==
    IF list = <<>> THEN e
    ELSE remove_label_all(remove_label(e, T, Head(list), label), T, Tail(list), label)

\* a variant for which p is no different from s
label_parentless_task_first_only(e, T, t, dominant_type, label) ==
    IF dominant_type = None THEN e
    ELSE
    LET section_mode == dominant_type[1]
        by_parentless_mode == ~e.parentless_found
        should_label ==
            \/ section_mode = "s" /\ ~e.section_found /\ by_parentless_mode
            \/ section_mode = "p" /\ by_parentless_mode
            \/ section_mode = "x" /\ by_parentless_mode
    IN IF should_label
       THEN add_label([e EXCEPT !.selected = @ \cup {t}], T, t, label)
       ELSE IF Contains(T[t].labels, label) THEN remove_label(e, T, t, label)
       ELSE e

\* a variant whose section slot s reaches every section
label_parentless_task_any_section(e, T, t, dominant_type, label) ==
    IF dominant_type = None THEN e
    ELSE
    LET parentless_mode == dominant_type[2]
        should_label ==
            \/ parentless_mode = "s" /\ ~e.parentless_found
            \/ parentless_mode = "p"
    IN IF should_label
       THEN add_label([e EXCEPT !.selected = @ \cup {t}], T, t, label)
       ELSE IF Contains(T[t].labels, label) THEN remove_label(e, T, t, label)
       ELSE e

\* a variant that never takes a stale label away
label_parentless_task_keeping(e, T, t, dominant_type, label) ==
    IF dominant_type = None THEN e
    ELSE
    LET section_mode == dominant_type[1]
        parentless_mode == dominant_type[2]
        by_parentless_mode ==
            \/ parentless_mode = "s" /\ ~e.parentless_found
            \/ parentless_mode = "p"
        should_label ==
            \/ section_mode = "s" /\ ~e.section_found /\ by_parentless_mode
            \/ section_mode = "p" /\ by_parentless_mode
            \/ section_mode = "x" /\ by_parentless_mode
    IN IF should_label
       THEN add_label([e EXCEPT !.selected = @ \cup {t}], T, t, label)
       ELSE e

label_parentless_task(e, T, t, dominant_type, label) ==
    IF dominant_type = None THEN e
    ELSE
    LET section_mode == dominant_type[1]
        parentless_mode == dominant_type[2]
        by_parentless_mode ==
            \/ parentless_mode = "s" /\ ~e.parentless_found
            \/ parentless_mode = "p"
        should_label ==
            \/ section_mode = "s" /\ ~e.section_found /\ by_parentless_mode
            \/ section_mode = "p" /\ by_parentless_mode
            \/ section_mode = "x" /\ by_parentless_mode
    IN IF should_label
       THEN add_label([e EXCEPT !.selected = @ \cup {t}], T, t, label)
       ELSE IF Contains(T[t].labels, label) THEN remove_label(e, T, t, label)
       ELSE e

\* the loop of the sequential branch over child_tasks
RECURSIVE cascade_sequential(_, _, _, _, _, _)
cascade_sequential(e, T, t, children, label, labeled_first) ==
    IF children = <<>> THEN e
    ELSE
    LET child == Head(children)
        e1 == remove_label(e, T, child, label)
        e2 == [e1 EXCEPT !.db = set_parent_type(@, child, "s")]
        first == ~labeled_first /\ ~T[child].is_completed
                    /\ Contains(T[t].labels, label)
        e3 == IF first
              THEN remove_label(
                      add_label([e2 EXCEPT !.received = @ \cup {child}], T, child, label),
                      T, t, label)
              ELSE e2
    IN IF is_header_task(local_content(e, T, child))
       THEN cascade_sequential(e, T, t, Tail(children), label, labeled_first)
       ELSE cascade_sequential(e3, T, t, Tail(children), label, labeled_first \/ first)

\* the loop of the parallel branch over child_tasks
RECURSIVE cascade_parallel(_, _, _, _)
cascade_parallel(e, T, children, label) ==
    IF children = <<>> THEN e
    ELSE
    LET child == Head(children)
        e1 == [e EXCEPT !.db = set_parent_type(@, child, "p")]
        e2 == IF ~T[child].is_completed
              THEN add_label([e1 EXCEPT !.received = @ \cup {child}], T, child, label)
              ELSE e1
    IN IF is_header_task(local_content(e, T, child))
       THEN cascade_parallel(e, T, Tail(children), label)
       ELSE cascade_parallel(e2, T, Tail(children), label)

\* a variant that reads the parentless slot where the subtask slot is meant
label_task_with_children_slot(e, T, t, child_tasks, task_type, section_type, project_type, label) ==
    LET stored_parent_type == get_parent_type(e.db, t)
        dominant_type ==
            IF is_parentless(T[t].parent_id)
            THEN resolve_dominant_type(task_type, section_type, project_type)
            ELSE IF task_type = None /\ stored_parent_type # ""
                 THEN <<"x", "x", stored_parent_type>>
                 ELSE task_type
        subtask_mode == dominant_type[2]
    IN IF dominant_type = None THEN e
       ELSE IF subtask_mode = "s"
            THEN cascade_sequential(e, T, t, child_tasks, label, FALSE)
       ELSE IF subtask_mode = "p"
            THEN cascade_parallel(
                    IF Contains(T[t].labels, label) THEN remove_label(e, T, t, label)
                    ELSE e,
                    T, child_tasks, label)
       ELSE e

label_task_with_children(e, T, t, child_tasks, task_type, section_type, project_type, label) ==
    LET stored_parent_type == get_parent_type(e.db, t)
        dominant_type ==
            IF is_parentless(T[t].parent_id)
            THEN resolve_dominant_type(task_type, section_type, project_type)
            ELSE IF task_type = None /\ stored_parent_type # ""
                 THEN <<"x", "x", stored_parent_type>>
                 ELSE task_type
        subtask_mode == dominant_type[3]
    IN IF dominant_type = None THEN e
       ELSE IF subtask_mode = "s"
            THEN cascade_sequential(e, T, t, child_tasks, label, FALSE)
       ELSE IF subtask_mode = "p"
            THEN cascade_parallel(
                    IF Contains(T[t].labels, label) THEN remove_label(e, T, t, label)
                    ELSE e,
                    T, child_tasks, label)
       ELSE e

\* datetime.strptime(date, "%Y-%m-%d") less today, in days: a due.date of
\* the form YYYY-MM-DD is <<days ahead>>; one that carries a time of day
\* as well is <<days ahead, hour>>, which the format does not match
\* (ValueError, here None)
strptime_days(date) == IF Len(date) = 1 THEN Some(date[1]) ELSE None

\* a variant that hides a task whose due date cannot be read
apply_hide_future_unreadable_too(e, T, cfg, t, child_tasks, label) ==
    IF cfg.hide_future <= 0 THEN e
    ELSE IF T[t].due # None
            /\ (strptime_days(T[t].due) = None
                  \/ strptime_days(T[t].due)[1] >= cfg.hide_future)
         THEN remove_label_all(remove_label(e, T, t, label), T, child_tasks, label)
    ELSE e

\* T[t].due is None or the due.date; the except branch leaves e as it is
apply_hide_future(e, T, cfg, t, child_tasks, label) ==
    IF cfg.hide_future <= 0 THEN e
    ELSE IF T[t].due # None /\ strptime_days(T[t].due) # None
            /\ strptime_days(T[t].due)[1] >= cfg.hide_future
         THEN remove_label_all(remove_label(e, T, t, label), T, child_tasks, label)
    ELSE e

\* the tasks of list whose parent is t
children_in(T, list, t) == SelectSeq(list, LAMBDA c : T[c].parent_id = t)

\* the subtask step of _process_task
label_children_of(e, T, ctx, t, child_tasks, task_type, label) ==
    IF child_tasks # <<>>
    THEN label_task_with_children(e, T, t, child_tasks, task_type,
              ctx.section_type, ctx.project_type, label)
    ELSE e

\* the parentless step of _process_task
label_if_parentless(e, T, ctx, t, task_type, label) ==
    IF is_parentless(T[t].parent_id)
    THEN label_parentless_task(e, T, t,
              resolve_dominant_type(task_type, ctx.section_type, ctx.project_type),
              label)
    ELSE e

\* a variant that leaves the label on a task without a type at any level
label_task_keeping_stale(e, T, cfg, ctx, t, task_type) ==
    LET label == cfg.label
        child_tasks == children_in(T, ctx.non_completed, t)
        has_any_type == task_type # None \/ ctx.section_type # None
                            \/ ctx.project_type # None
    IN IF ~has_any_type /\ Contains(T[t].labels, label) THEN e
       ELSE IF is_parentless(T[t].parent_id) /\ ~has_any_type THEN e
       ELSE [apply_hide_future(
                label_children_of(
                    label_if_parentless(e, T, ctx, t, task_type, label),
                    T, ctx, t, child_tasks, task_type, label),
                T, cfg, t, child_tasks, label)
             EXCEPT !.parentless_found = TRUE]

\* _process_task once the task's own type is known
label_task(e, T, cfg, ctx, t, task_type) ==
    LET label == cfg.label
        child_tasks == children_in(T, ctx.non_completed, t)
        has_any_type == task_type # None \/ ctx.section_type # None
                            \/ ctx.project_type # None
    IN IF ~has_any_type /\ Contains(T[t].labels, label)
       THEN clean_tasks(e, T, <<t>>, label)
       ELSE IF is_parentless(T[t].parent_id) /\ ~has_any_type THEN e
       ELSE [apply_hide_future(
                label_children_of(
                    label_if_parentless(e, T, ctx, t, task_type, label),
                    T, ctx, t, child_tasks, task_type, label),
                T, cfg, t, child_tasks, label)
             EXCEPT !.parentless_found = TRUE]

\* a variant that leaves the children alone when the task's type changed
process_typed_task_keeping_children(e, T, cfg, ctx, t, ty) ==
    label_task(note_type_changed(e, ty, "task", t), T, cfg, ctx, t, ty.type_str)

\* _process_task from the type lookup ty of the task on
process_typed_task(e, T, cfg, ctx, t, ty) ==
    label_task(
        IF ty.changed
        THEN clean_tasks(note_type_changed(e, ty, "task", t), T,
                 children_in(T, ctx.section_tasks, t), cfg.label)
        ELSE note_type_changed(e, ty, "task", t),
        T, cfg, ctx, t, ty.type_str)

\* the command on the task itself: the content without the prefix is
\* written to the server and to the local copy
run_task_command(e, t, command) ==
    IF command.new_name = None THEN e
    ELSE [update_via_rest(e, "task", t, command.new_name[1]) EXCEPT
            !.content = [k \in DOMAIN @ \cup {t} |->
                            IF k = t THEN command.new_name[1] ELSE @[k]]]

\* the header prefix is written to the server only
header_task(e, T, t) ==
    IF ~StartsWith(local_content(e, T, t), <<"*", " ">>)
    THEN update_via_rest(e, "task", t, <<"*", " ">> \o local_content(e, T, t))
    ELSE e

unheader_task(e, T, t) ==
    IF StartsWith(local_content(e, T, t), <<"*", " ">>)
    THEN update_via_rest(e, "task", t,
             SubSeq(local_content(e, T, t), 3, Len(local_content(e, T, t))))
    ELSE e

set_header(e, T, t, header) ==
    IF header THEN header_task(e, T, t) ELSE unheader_task(e, T, t)

\* _headerify_children: list holds the children still to visit
RECURSIVE headerify_children(_, _, _, _, _)
headerify_children(e, T, section_tasks, list, header) ==
    IF list = <<>> THEN e
    ELSE headerify_children(
            headerify_children(set_header(e, T, Head(list), header), T, section_tasks,
                children_in(T, section_tasks, Head(list)), header),
            T, section_tasks, Tail(list), header)

\* the command of the project or of the section
header_from_above(e, T, ctx, t) ==
    IF ctx.header_all THEN header_task(e, T, t) ELSE e

unheader_from_above(e, T, ctx, t) ==
    IF ctx.unheader_all THEN unheader_task(e, T, t) ELSE e

\* the command of the task: the task and every descendant
header_from_task(e, T, ctx, t, command) ==
    IF command.header_all
    THEN headerify_children(header_task(e, T, t), T, ctx.section_tasks,
             children_in(T, ctx.section_tasks, t), TRUE)
    ELSE e

unheader_from_task(e, T, ctx, t, command) ==
    IF command.unheader_all
    THEN headerify_children(unheader_task(e, T, t), T, ctx.section_tasks,
             children_in(T, ctx.section_tasks, t), FALSE)
    ELSE e

apply_header_modifications(e, T, ctx, t, command) ==
    unheader_from_task(
        header_from_task(
            unheader_from_above(header_from_above(e, T, ctx, t), T, ctx, t),
            T, ctx, t, command),
        T, ctx, t, command)

\* _process_task from the completed check on
process_headed_task(e, T, cfg, ctx, t) ==
    IF T[t].is_completed THEN e
    ELSE IF is_header_task(local_content(e, T, t)) \/ ctx.section_disabled
         THEN clean_tasks(e, T, <<t>> \o children_in(T, ctx.section_tasks, t), cfg.label)
    ELSE process_typed_task(e, T, cfg, ctx, t,
             get_entity_type(e.db, "task", t, local_content(e, T, t), 1))

\* ctx: [section_tasks, non_completed, project_type, section_type,
\*       section_disabled, header_all, unheader_all]
process_task(e, T, cfg, ctx, t) ==
    process_headed_task(
        apply_header_modifications(
            run_task_command(e, t, check_header_command(T[t].content)),
            T, ctx, t, check_header_command(T[t].content)),
        T, cfg, ctx, t)

RECURSIVE process_tasks(_, _, _, _, _)
process_tasks(e, T, cfg, ctx, list) ==
    IF list = <<>> THEN e
    ELSE process_tasks(process_task(e, T, cfg, ctx, Head(list)), T, cfg, ctx, Tail(list))

\* the sort key (normalize_parent_id(parent_id), order)
SortKeyLess(T, a, b) ==
    LET pa == normalize_parent_id(T[a].parent_id)
        pb == normalize_parent_id(T[b].parent_id)
    IN StrLess(pa, pb) \/ (pa = pb /\ T[a].order < T[b].order)

\* list.sort is stable: t goes behind every element whose key is not greater
RECURSIVE InsertSorted(_, _, _)
InsertSorted(T, sorted, t) ==
    IF sorted = <<>> THEN <<t>>
    ELSE IF SortKeyLess(T, t, Head(sorted)) THEN <<t>> \o sorted
    ELSE <<Head(sorted)>> \o InsertSorted(T, Tail(sorted), t)

RECURSIVE SortTasks(_, _)
SortTasks(T, list) ==
    IF list = <<>> THEN <<>>
    ELSE InsertSorted(T, SortTasks(T, SubSeq(list, 1, Len(list) - 1)), list[Len(list)])

\* a set of integers as the ascending list the API returns
RECURSIVE AscendingList(_)
AscendingList(set) ==
    IF set = {} THEN <<>>
    ELSE LET m == CHOOSE x \in set : \A y \in set : x <= y
         IN <<m>> \o AscendingList(set \ {m})

\* the section's tasks in processing order
sorted_section_tasks(T, section) ==
    SortTasks(T, AscendingList({t \in Tasks : T[t].section_id = section}))

\* NoSection has no name to read a type from
section_entity_type(d, S, section) ==
    IF section = NoSectionId
    THEN [type_str |-> None, changed |-> FALSE, db |-> d]
    ELSE get_entity_type(d, "section", section, S[section].name, 2)

\* NoSection carries no command
section_command(S, section) ==
    IF section = NoSectionId THEN NoCommand
    ELSE check_header_command(S[section].name)

\* the name without the prefix is written to the server
run_section_command(e, section, command) ==
    IF command.new_name = None THEN e
    ELSE update_via_rest(e, "section", section, command.new_name[1])

\* _process_section from the type lookup ty of the section to the task loop
process_section_tasks(e, T, S, cfg, section, project_type, section_tasks, ty) ==
    LET label == cfg.label
        command == section_command(S, section)
        e1 == note_type_changed(run_section_command(e, section, command), ty,
                                "section", section)
        e2 == IF ty.changed THEN clean_tasks(e1, T, section_tasks, label) ELSE e1
        e3 == [e2 EXCEPT !.parentless_found = FALSE]
        ctx == [section_tasks |-> section_tasks,
                non_completed |-> SelectSeq(section_tasks, LAMBDA t : ~T[t].is_completed),
                project_type |-> project_type,
                section_type |-> ty.type_str,
                section_disabled |-> is_section_disabled(S, section),
                header_all |-> e.header_all_p \/ command.header_all,
                unheader_all |-> e.unheader_all_p \/ command.unheader_all]
    IN process_tasks(e3, T, cfg, ctx, section_tasks)

\* the end of _process_section: a section with tasks has been met
mark_section_found(e, section_tasks) ==
    IF section_tasks # <<>> /\ ~e.section_found
    THEN [e EXCEPT !.section_found = TRUE]
    ELSE e

\* a variant that never records that a section with tasks was met
process_section_unmarked(e, T, S, cfg, section, project_type) ==
    process_section_tasks(e, T, S, cfg, section, project_type,
        sorted_section_tasks(T, section), section_entity_type(e.db, S, section))

\* section: a section id or NoSectionId
process_section(e, T, S, cfg, section, project_type) ==
    mark_section_found(
        process_section_tasks(e, T, S, cfg, section, project_type,
            sorted_section_tasks(T, section), section_entity_type(e.db, S, section)),
        sorted_section_tasks(T, section))

RECURSIVE process_sections(_, _, _, _, _, _)
process_sections(e, T, S, cfg, list, project_type) ==
    IF list = <<>> THEN e
    ELSE process_sections(process_section(e, T, S, cfg, Head(list), project_type),
                          T, S, cfg, Tail(list), project_type)

\* _process_project from the type lookup ty of the project on
process_typed_project(e, T, S, cfg, ty) ==
    LET label == cfg.label
        project_tasks == AscendingList(Tasks)
        e1 == note_type_changed(e, ty, "project", ProjectId)
        e2 == IF ty.changed THEN clean_tasks(e1, T, project_tasks, label) ELSE e1
        e3 == [e2 EXCEPT !.section_found = FALSE]
    IN process_sections(e3, T, S, cfg, <<NoSectionId>> \o AscendingList(Sections),
                        ty.type_str)

\* the command of the project: the name without the prefix is written to
\* the server, the flags go down to every task
run_project_command(e, command) ==
    [IF command.new_name = None THEN e
     ELSE update_via_rest(e, "project", ProjectId, command.new_name[1])
     EXCEPT !.header_all_p = command.header_all,
            !.unheader_all_p = command.unheader_all]

process_project(e, T, P, S, cfg) ==
    process_typed_project(run_project_command(e, check_header_command(P.name)),
        T, S, cfg, get_entity_type(e.db, "project", ProjectId, P.name, 3))

\* a variant that stamps every newly seen candidate with the clock reading
RECURSIVE track_candidates_by_clock(_, _, _, _, _, _)
track_candidates_by_clock(d, T, candidates, db_active, now_ms, assigned_at_by_task_id) ==
    IF candidates = <<>> THEN [db |-> d, assigned_at_by_task_id |-> assigned_at_by_task_id]
    ELSE
    LET t == Head(candidates)
        assigned_at ==
            IF t \notin db_active THEN Some(now_ms)
            ELSE get_singleton_assigned_at(d, t)
    IN track_candidates_by_clock(set_singleton_state(d, t, TRUE, assigned_at), T,
            Tail(candidates), db_active, now_ms,
            [k \in DOMAIN assigned_at_by_task_id \cup {t} |->
                IF k = t THEN assigned_at ELSE assigned_at_by_task_id[k]])

\* the loop that records every candidate's activation time
RECURSIVE track_candidates(_, _, _, _, _, _)
track_candidates(d, T, candidates, db_active, now_ms, assigned_at_by_task_id) ==
    IF candidates = <<>> THEN [db |-> d, assigned_at_by_task_id |-> assigned_at_by_task_id]
    ELSE
    LET t == Head(candidates)
        observed_updated_at == task_updated_epoch_ms(T, t)
        assigned_at ==
            IF t \notin db_active
            THEN IF observed_updated_at # None THEN observed_updated_at ELSE Some(now_ms)
            ELSE get_singleton_assigned_at(d, t)
    IN track_candidates(set_singleton_state(d, t, TRUE, assigned_at), T,
            Tail(candidates), db_active, now_ms,
            [k \in DOMAIN assigned_at_by_task_id \cup {t} |->
                IF k = t THEN assigned_at ELSE assigned_at_by_task_id[k]])

\* a variant that leaves the rows of tasks without the label active
deactivate_none(d, list) == d

RECURSIVE deactivate_all(_, _)
deactivate_all(d, list) ==
    IF list = <<>> THEN d
    ELSE deactivate_all(set_singleton_state(d, Head(list), FALSE, None), Tail(list))

\* a variant that takes the label from the first loser only
remove_losers_first_only(e, T, losers, label_name) ==
    IF losers = <<>> THEN e
    ELSE LET e1 == remove_label(e, T, Head(losers), label_name)
         IN [e1 EXCEPT !.db = set_singleton_state(@, Head(losers), FALSE, None)]

\* a variant that takes the label from the losers and leaves their rows
RECURSIVE remove_losers_keeping_rows(_, _, _, _)
remove_losers_keeping_rows(e, T, losers, label_name) ==
    IF losers = <<>> THEN e
    ELSE remove_losers_keeping_rows(remove_label(e, T, Head(losers), label_name),
                                    T, Tail(losers), label_name)

RECURSIVE remove_losers(_, _, _, _)
remove_losers(e, T, losers, label_name) ==
    IF losers = <<>> THEN e
    ELSE LET e1 == remove_label(e, T, Head(losers), label_name)
         IN remove_losers(
                [e1 EXCEPT !.db = set_singleton_state(@, Head(losers), FALSE, None)],
                T, Tail(losers), label_name)

\* the non-completed tasks whose current labels hold label_name
singleton_candidates(e, T, label_name) ==
    SelectSeq(AscendingList(Tasks),
        LAMBDA t : ~T[t].is_completed
                    /\ Contains(get_current_labels(e, T, t), label_name))

\* the end of the reconciler: the losers give the label up
keep_winner(e, T, candidates, winner, label_name) ==
    IF Len(candidates) <= 1 THEN e
    ELSE IF winner = None THEN e
    ELSE remove_losers([e EXCEPT !.winner = winner], T,
             SelectSeq(candidates, LAMBDA t : t # winner[1]), label_name)

\* the reconciler once the candidates' activation times are tracked
choose_and_keep(e, T, candidates, tracked, label_name) ==
    keep_winner([e EXCEPT !.db = tracked.db], T, candidates,
        choose_singleton_winner(T, candidates, None,
            tracked.assigned_at_by_task_id, None),
        label_name)

\* the reconciler over its candidates
reconcile_candidates(e, T, candidates, db_active, label_name, now_ms) ==
    choose_and_keep(e, T, candidates,
        track_candidates(
            deactivate_all(e.db, AscendingList(db_active \ Range(candidates))),
            T, candidates, db_active, now_ms, <<>>),
        label_name)

reconcile_singleton_label(e, T, label_name, now_ms) ==
    reconcile_candidates(e, T, singleton_candidates(e, T, label_name),
        get_active_singleton_tasks(e.db), label_name, now_ms)

\* the variant that processes the inbox like any other project
label_projects_inbox_too(e, T, P, S, cfg) ==
    IF cfg.label # "" THEN process_project(e, T, P, S, cfg) ELSE e

\* the labeling of the projects
label_projects(e, T, P, S, cfg) ==
    IF cfg.label # "" /\ ~P.is_inbox_project
    THEN process_project(e, T, P, S, cfg)
    ELSE e

\* the focus step
reconcile_focus(e, T, cfg, now_ms) ==
    IF cfg.focus_label # ""
    THEN reconcile_singleton_label(e, T, cfg.focus_label, now_ms)
    ELSE e

\* what a pass hands back
pass_result(e, queued) ==
    [changes |-> Len(queued), queued |-> queued, db |-> e.db,
     winner |-> e.winner, selected |-> e.selected, received |-> e.received,
     rest |-> e.rest, type_changed |-> e.type_changed]

\* the commit of the tracked labels
commit_pass(e, T) == pass_result(e, commit_label_changes(e, T, e.desired_keys))

\* LabelingEngine.run: [changes, queued, db, winner, selected, received, rest]
run(T, P, S, cfg, d, now_ms) ==
    IF cfg.label = "" /\ cfg.focus_label = ""
    THEN [changes |-> 0, queued |-> <<>>, db |-> d, winner |-> None,
          selected |-> {}, received |-> {}, rest |-> <<>>, type_changed |-> {}]
    ELSE commit_pass(
            reconcile_focus(label_projects(NewEngine(d), T, P, S, cfg), T, cfg, now_ms),
            T)

(***************************************************************************)
(* api.py: the write queue.  A flush sends every queued update in one      *)
(* request; the server replaces the task's label list by the queued one.   *)
(***************************************************************************)
RECURSIVE ApplyUpdates(_, _)
ApplyUpdates(T, updates) ==
    IF updates = <<>> THEN T
    ELSE ApplyUpdates([T EXCEPT ![Head(updates).id].labels = Head(updates).labels],
                      Tail(updates))

\* what the REST updates leave on the server: the last text written to
\* each entity
RECURSIVE RestTasks(_, _)
RestTasks(T, rest) ==
    IF rest = <<>> THEN T
    ELSE RestTasks(IF Head(rest).kind = "task"
                   THEN [T EXCEPT ![Head(rest).id].content = Head(rest).text]
                   ELSE T,
                   Tail(rest))

RECURSIVE RestSections(_, _)
RestSections(S, rest) ==
    IF rest = <<>> THEN S
    ELSE RestSections(IF Head(rest).kind = "section"
                      THEN [S EXCEPT ![Head(rest).id].name = Head(rest).text]
                      ELSE S,
                      Tail(rest))

RECURSIVE RestProject(_, _)
RestProject(P, rest) ==
    IF rest = <<>> THEN P
    ELSE RestProject(IF Head(rest).kind = "project"
                     THEN [P EXCEPT !.name = Head(rest).text]
                     ELSE P,
                     Tail(rest))

\* the ids appended to _updated_ids
RestIds(rest) == [i \in 1..Len(rest) |-> rest[i].id]

pending_changes == Len(queue) + Len(updated_ids)

(***************************************************************************)
(* The label list a task ends a pass with: the snapshot's list with the    *)
(* queued updates applied.                                                 *)
(***************************************************************************)
FinalLabels(t) == ApplyUpdates(tasks, queue)[t].labels

(***************************************************************************)
(* The accounts the model starts from.                                     *)
(***************************************************************************)
next_action == "next_action"
focus == "focus"

RECURSIVE ReachesRoot(_, _, _)
ReachesRoot(par, t, n) ==
    par[t] = NoParent \/ (n > 0 /\ ReachesRoot(par, par[t], n - 1))

\* the parent assignments that form a forest
Shapes ==
    {par \in [Tasks -> Tasks \cup {NoParent}] : \A t \in Tasks : ReachesRoot(par, t, NumTasks)}

\* a subtask lies in the section of its parent
SectionsOf(par) ==
    {sec \in [Tasks -> Sections \cup {NoSectionId}] :
        \A t \in Tasks : par[t] # NoParent => sec[t] = sec[par[t]]}

\* sibling order: by id, or against it
Orders ==
    {[t \in Tasks |-> t - FirstTaskId + 1],
     [t \in Tasks |-> FirstTaskId + NumTasks - t]}

MkTasks(par, sec, ord, con, lab, comp, du, upd) ==
    [t \in Tasks |->
        [content |-> con[t], parent_id |-> par[t], section_id |-> sec[t],
         order |-> ord[t], labels |-> lab[t], is_completed |-> comp[t],
         due |-> du[t], updated_at |-> upd[t]]]

\* at most one task takes a value outside the default
AtMostOneOff(f, default) == Cardinality({t \in Tasks : f[t] # default}) <= 1

NoPass ==
    [passes |-> 0, changes |-> 0, winner |-> None, selected |-> {}, received |-> {},
     seen |-> <<>>]

NoCall ==
    [candidates |-> <<>>, sticky_task_id |-> None, assigned_at_by_task_id |-> <<>>,
     preferred_task_id |-> None, returned |-> FALSE, result |-> None]

InitLoop ==
    /\ queue = <<>> /\ updated_ids = <<>>
    /\ pc = "run"
    /\ now = 1
    /\ last = NoPass
    /\ call = NoCall

(***************************************************************************)
(* The main loop (__main__.py): a pass, then a flush when changes are      *)
(* pending.  A flush attempt clears the queue whether it succeeds or       *)
(* raises.                                                                 *)
(***************************************************************************)
\* time.time() is read by the reconciler only; it may have advanced
ClockReadings ==
    IF config.focus_label # "" /\ now < MaxTime THEN {now, now + 1} ELSE {now}

\* what the loop keeps of the result r of a pass
PassDone(r) ==
    /\ db' = r.db
    /\ queue' = queue \o r.queued
    /\ updated_ids' = updated_ids \o RestIds(r.rest)
    /\ tasks' = RestTasks(tasks, r.rest)
    /\ sections' = RestSections(sections, r.rest)
    /\ project' = RestProject(project, r.rest)
    /\ last' = [passes |-> IF last.passes < 2 THEN last.passes + 1 ELSE 2,
                changes |-> r.changes, winner |-> r.winner,
                selected |-> r.selected, received |-> r.received,
                seen |-> tasks]

RunPass ==
    /\ pc = "run"
    /\ \E now_ms \in ClockReadings :
        /\ now' = now_ms
        /\ PassDone(run(tasks, project, sections, config, db, now_ms))
    /\ pc' = "flush"
    /\ UNCHANGED <<config, call>>

FlushQueue ==
    /\ pc = "flush"
    /\ pending_changes > 0
    /\ tasks' = ApplyUpdates(tasks, queue)
    /\ queue' = <<>>
    /\ updated_ids' = <<>>
    /\ pc' = "run"
    /\ UNCHANGED <<project, sections, config, db, now, last, call>>

\* a variant in which a flush that raised leaves the queue as it was
FlushFailKeepingQueue ==
    /\ pc = "flush"
    /\ queue # <<>>
    /\ pc' = "run"
    /\ UNCHANGED <<project, sections, tasks, config, db, queue, updated_ids, now, last, call>>

FlushFail ==
    /\ pc = "flush"
    /\ queue # <<>>
    /\ queue' = <<>>
    /\ updated_ids' = <<>>
    /\ pc' = "run"
    /\ UNCHANGED <<project, sections, tasks, config, db, now, last, call>>

SkipFlush ==
    /\ pc = "flush"
    /\ pending_changes = 0
    /\ pc' = "run"
    /\ UNCHANGED <<project, sections, tasks, config, db, queue, updated_ids, now, last, call>>

Next == RunPass \/ FlushQueue \/ FlushFail \/ SkipFlush

\* a direct call of choose_singleton_winner (webui.py pick_winner, tests)
ChooseWinner ==
    /\ ~call.returned
    /\ call' = [call EXCEPT
                   !.returned = TRUE,
                   !.result = choose_singleton_winner(tasks, call.candidates,
                                  call.sticky_task_id, call.assigned_at_by_task_id,
                                  call.preferred_task_id)]
    /\ UNCHANGED <<project, sections, tasks, config, db, queue, updated_ids, pc, now, last>>

\* the main loop when every flush succeeds
NextApplied == RunPass \/ FlushQueue \/ SkipFlush

(***************************************************************************)
(* Vocabulary of the properties.                                           *)
(***************************************************************************)
AfterPass == pc = "flush"

Eligible(t) == ~tasks[t].is_completed /\ ~is_header_task(tasks[t].content)

Children(t) == {c \in Tasks : tasks[c].parent_id = t}

EligibleChildren(t) == {c \in Children(t) : Eligible(c)}

Parentless(t) == tasks[t].parent_id = NoParent

\* the task of a non-empty set of siblings that comes first in sibling order
FirstByOrder(set) == CHOOSE c \in set : \A d \in set : tasks[c].order <= tasks[d].order

HoldsNext(t) == Contains(FinalLabels(t), next_action)

NextHolders == {t \in Tasks : ~tasks[t].is_completed /\ HoldsNext(t)}

ProjectType == parse_type_suffix(project.name, s_suffix, p_suffix, 3)

SectionType(s) ==
    IF s = NoSectionId THEN None
    ELSE parse_type_suffix(sections[s].name, s_suffix, p_suffix, 2)

TaskType(t) == parse_type_suffix(tasks[t].content, s_suffix, p_suffix, 1)

NoSectionOrTaskType ==
    /\ \A s \in Sections : SectionType(s) = None
    /\ \A t \in Tasks : TaskType(t) = None

PlainConfig == [label |-> next_action, focus_label |-> "", hide_future |-> 0]

NoDue == [t \in Tasks |-> None]

\* one task at most is completed or a header
CompletedOrHeader ==
    {cc \in [Tasks -> {<<FALSE, <<"a">>>>, <<TRUE, <<"a">>>>, <<FALSE, <<"*", "a">>>>}] :
        AtMostOneOff(cc, <<FALSE, <<"a">>>>)}

\* the flat account: every task is parentless
Flat == {[t \in Tasks |-> NoParent]}

\* One task at most stands out: it is completed, is a header, declares a
\* code of its own, or is due far in the future (with hide_future 0 or 1).
\* Each choice is <<is_completed, content, due, hide_future>>.
PlainTask == <<FALSE, <<"a">>, None, 0>>

TaskVariants ==
    {PlainTask,
     <<TRUE, <<"a">>, None, 0>>,
     <<FALSE, <<"*", "a">>, None, 0>>,
     <<FALSE, <<"a", "-">>, None, 0>>,
     <<FALSE, <<"a", "=">>, None, 0>>,
     <<FALSE, <<"a">>, Some(FarDays), 0>>,
     <<FALSE, <<"a">>, Some(FarDays), 1>>}

OneStandsOut(variants) ==
    {v \in [Tasks -> variants \cup {PlainTask}] : AtMostOneOff(v, PlainTask)}

\* ... or up to two tasks are completed or headers
Inactive == {v \in TaskVariants : v[1] \/ v[2] = <<"*", "a">>}

TwoInactive ==
    {v \in [Tasks -> Inactive \cup {PlainTask}] :
        Cardinality({t \in Tasks : v[t] # PlainTask}) = 2}

PlainSection == [name |-> <<"S">>]

\* the section names stand out only when no task does: at most one section
\* takes another name than the usual one, and then every task is plain
StandOuts(usual, sectionNames, vs) ==
    {<<v, [s \in Sections |-> [name |-> usual]]>> : v \in vs}
    \cup {<<[t \in Tasks |-> PlainTask], n>> :
            n \in {m \in [Sections -> [name : sectionNames \cup {usual}]] :
                     Cardinality({s \in Sections : m[s].name # usual}) <= 1}}

HideFutureOf(v) == IF \E t \in Tasks : v[t][4] = 1 THEN 1 ELSE 0

\* the accounts with the given project names, section names and shapes,
\* any snapshot labels, and an empty store
InitAccounts(projectNames, usual, sectionNames, shapes, vs) ==
    /\ InitLoop
    /\ \E name \in projectNames : project = [name |-> name, is_inbox_project |-> FALSE]
    /\ db = EmptyDB
    /\ \E par \in shapes, ord \in Orders, so \in StandOuts(usual, sectionNames, vs) :
       \E sec \in SectionsOf(par), lab \in [Tasks -> {<<>>, <<next_action>>}] :
        LET v == so[1] IN
          /\ sections = so[2]
          /\ config = [label |-> next_action, focus_label |-> "",
                       hide_future |-> HideFutureOf(v)]
          /\ tasks = MkTasks(par, sec, ord, [t \in Tasks |-> v[t][2]], lab,
                             [t \in Tasks |-> v[t][1]], [t \in Tasks |-> v[t][3]],
                             NoDue)

(***************************************************************************)
(* SpecApplied: an all-sequential project without section or task codes,   *)
(* a snapshot without labels, an empty store, and a main loop whose every  *)
(* flush succeeds.                                                         *)
(***************************************************************************)
InitUnlabeled ==
    /\ InitLoop
    /\ project = [name |-> <<"W", "-">>, is_inbox_project |-> FALSE]
    /\ sections = [s \in Sections |-> [name |-> <<"S">>]]
    /\ config = PlainConfig
    /\ db = EmptyDB
    /\ \E par \in Shapes, ord \in Orders, cc \in CompletedOrHeader :
       \E sec \in SectionsOf(par) :
          tasks = MkTasks(par, sec, ord, [t \in Tasks |-> cc[t][2]],
                          [t \in Tasks |-> <<>>], [t \in Tasks |-> cc[t][1]],
                          NoDue, NoDue)

\* the loop always goes on from a pass to its flush; that passes recur is the
\* premise of the liveness property itself
SpecApplied ==
    InitUnlabeled /\ [][NextApplied]_vars /\ WF_vars(FlushQueue) /\ WF_vars(SkipFlush)

\* C2: in an sss project without section or task codes, started from an
\* unlabeled snapshot with every pass's updates applied, at most one
\* non-completed task holds the next-action label after every pass.
C2_AtMostOneHolder ==
    (AfterPass /\ ProjectType = <<"s", "s", "s">> /\ NoSectionOrTaskType)
        => Cardinality(NextHolders) <= 1

\* C3: with the hierarchy unchanged and every pass's updates applied, the
\* engine reaches a steady state: from some pass on, every pass queues zero
\* label updates (while the main loop keeps running passes).
C3_SteadyState ==
    []<>(pc = "flush") => <>[](last.passes > 0 /\ last.changes = 0)

\* the parentless task the parentless rule of an sss project selects: the
\* first eligible parentless task of the first section that holds tasks
FirstSectionWithTasks ==
    CHOOSE s \in Sections \cup {NoSectionId} :
        /\ \E t \in Tasks : tasks[t].section_id = s
        /\ \A r \in Sections \cup {NoSectionId} :
              (\E t \in Tasks : tasks[t].section_id = r) => s <= r

EligibleParentless(s) ==
    {t \in Tasks : Parentless(t) /\ Eligible(t) /\ tasks[t].section_id = s}

\* C4: the sequential cascade acts on the labels computed so far in the
\* pass: a task that earns the label by the parentless rule and has eligible
\* children ends the pass without the label, and its first eligible child
\* (when that child has no subtasks of its own) ends the pass with it; one
\* parent with two children and no labels yields exactly one update, for the
\* first child.
C4_CascadeActsOnPassState ==
    (AfterPass /\ last.passes = 1)
        => \A t \in EligibleParentless(FirstSectionWithTasks) :
              (t = FirstByOrder(EligibleParentless(FirstSectionWithTasks))
                    /\ EligibleChildren(t) # {})
                => /\ ~HoldsNext(t)
                   /\ LET c == FirstByOrder(EligibleChildren(t))
                      IN Children(c) = {} => HoldsNext(c)
                   /\ (Cardinality(EligibleChildren(t)) = NumTasks - 1
                        => queue = <<[id |-> FirstByOrder(EligibleChildren(t)),
                                      labels |-> <<next_action>>]>>)

(***************************************************************************)
(* SpecFlat: accounts without subtasks under a project whose name ends in  *)
(* the sequential suffix.                                                  *)
(***************************************************************************)
InitFlat ==
    InitAccounts({<<"W", "-">>, <<"W", "=", "-">>, <<"W", "-", "=", "-">>},
                 <<"S">>, {<<"S", "=">>, <<"S", "*">>}, Flat,
                 OneStandsOut(TaskVariants) \cup TwoInactive)

SpecFlat == InitFlat /\ [][Next]_vars

SectionIds == Sections \cup {NoSectionId}

TasksOf(s) == {t \in Tasks : tasks[t].section_id = s}

NoSectionDisabled == \A s \in Sections : ~is_section_disabled(sections, s)

NoSubtasks == \A t \in Tasks : Parentless(t)

\* the sections whose parentless tasks the section slot of the project code
\* lets the parentless rule reach: every section under p, the first section
\* that holds tasks under s
SectionReached(s) ==
    \/ ProjectType[1] = "p"
    \/ ProjectType[1] = "s" /\ s = FirstSectionWithTasks

DefaultSingleton == [is_active |-> FALSE, assigned_at |-> None]

\* the singleton states earlier passes can have left: at most one task has
\* a row, active or deactivated, with its activation time
StoreStates ==
    {st \in [Tasks -> {DefaultSingleton,
                       [is_active |-> TRUE, assigned_at |-> Some(1)],
                       [is_active |-> FALSE, assigned_at |-> Some(1)]}] :
        AtMostOneOff(st, DefaultSingleton)}

InitFocus ==
    /\ InitLoop
    /\ project = [name |-> <<"W", "-">>, is_inbox_project |-> FALSE]
    /\ sections = [s \in Sections |-> PlainSection]
    /\ \E lbl \in {"", next_action} :
          config = [label |-> lbl, focus_label |-> focus, hide_future |-> 0]
    /\ \E st \in StoreStates : db = [EmptyDB EXCEPT !.singleton = st]
    /\ \E lab \in [Tasks -> {<<>>, <<focus>>}], upd \in [Tasks -> {None, Some(2)}],
          comp \in {c \in [Tasks -> BOOLEAN] : AtMostOneOff(c, FALSE)} :
          tasks = MkTasks([t \in Tasks |-> NoParent], [t \in Tasks |-> NoSectionId],
                          [t \in Tasks |-> t - FirstTaskId + 1],
                          [t \in Tasks |-> <<"a">>], lab, comp, NoDue, upd)

SpecFocus == InitFocus /\ [][Next]_vars

FocusHolders == {t \in Tasks : ~tasks[t].is_completed /\ Contains(FinalLabels(t), focus)}

FocusCandidates(T) == {t \in Tasks : ~T[t].is_completed /\ Contains(T[t].labels, focus)}

\* C1: after a pass with a singleton label configured, at most one
\* non-completed task holds that label in its final label list.
C1_AtMostOneFocus ==
    (AfterPass /\ config.focus_label # "") => Cardinality(FocusHolders) <= 1

\* a pass met three candidates in the snapshot and left the label on one
C1_Witness ==
    /\ AfterPass /\ config.focus_label = focus
    /\ Cardinality(FocusCandidates(last.seen)) = NumTasks
    /\ last.winner # None
    /\ FocusHolders = {last.winner[1]}

\* C9: when two consecutive passes see the same snapshot, the second pass
\* selects the same winner as the first.
C9_SameWinner ==
    [][(pc = "run" /\ pc' = "flush" /\ last.passes > 0 /\ last.seen = tasks)
            => last'.winner = last.winner]_vars

(***************************************************************************)
(* SpecWinner: choose_singleton_winner called directly on candidate lists, *)
(* activation-time lookups, updated_at values and preferred and sticky     *)
(* ids drawn from small sets.                                              *)
(***************************************************************************)
\* the ids in descending order
DescendingList(set) ==
    [i \in 1..Cardinality(set) |-> AscendingList(set)[Cardinality(set) + 1 - i]]

CandidateLists ==
    {AscendingList(c) : c \in SUBSET Tasks} \cup {DescendingList(c) : c \in SUBSET Tasks}

\* a lookup has an entry for some of the tasks
Lookups == UNION {[d -> {Some(1), Some(2)}] : d \in SUBSET Tasks}

\* None, or an id; the first task is never named, so that an id outside the
\* candidates is named whenever the list is short
NamedIds == {None} \cup {Some(t) : t \in Tasks \ {FirstTaskId}}

InitWinner ==
    /\ queue = <<>> /\ updated_ids = <<>> /\ pc = "done" /\ now = 1 /\ last = NoPass
    /\ project = [name |-> <<"W">>, is_inbox_project |-> FALSE]
    /\ sections = [s \in Sections |-> PlainSection]
    /\ config = [label |-> "", focus_label |-> focus, hide_future |-> 0]
    /\ db = EmptyDB
    /\ \E upd \in [Tasks -> {None, Some(1)}] :
          tasks = MkTasks([t \in Tasks |-> NoParent], [t \in Tasks |-> NoSectionId],
                          [t \in Tasks |-> t - FirstTaskId + 1],
                          [t \in Tasks |-> <<"a">>], [t \in Tasks |-> <<focus>>],
                          [t \in Tasks |-> FALSE], NoDue, upd)
    /\ \E c \in CandidateLists, l \in Lookups, st \in NamedIds, pr \in NamedIds :
          call = [candidates |-> c, sticky_task_id |-> st,
                  assigned_at_by_task_id |-> l, preferred_task_id |-> pr,
                  returned |-> FALSE, result |-> None]

SpecWinner == InitWinner /\ [][ChooseWinner]_vars

Named(id) == id # None /\ Contains(call.candidates, id[1])

AssignedOrMinus1(t) ==
    IF t \in DOMAIN call.assigned_at_by_task_id
    THEN call.assigned_at_by_task_id[t][1] ELSE -1

UpdatedOrMinus1(t) ==
    IF tasks[t].updated_at # None THEN tasks[t].updated_at[1] ELSE -1

\* the tuple of x is greater than the tuple of c: by activation time, then
\* by updated-at time, then by the ids as strings
Outranks(x, c) ==
    \/ AssignedOrMinus1(x) > AssignedOrMinus1(c)
    \/ /\ AssignedOrMinus1(x) = AssignedOrMinus1(c)
       /\ UpdatedOrMinus1(x) > UpdatedOrMinus1(c)
    \/ /\ AssignedOrMinus1(x) = AssignedOrMinus1(c)
       /\ UpdatedOrMinus1(x) = UpdatedOrMinus1(c)
       /\ StrLess(Digits(c), Digits(x))

\* x has the greatest rank tuple of the candidates
GreatestRank(x) == \A c \in Range(call.candidates) : c # x => Outranks(x, c)

SeqVariants == TaskVariants \ {<<FALSE, <<"a", "-">>, None, 0>>,
                               <<FALSE, <<"a">>, Some(FarDays), 0>>}

InitSeq ==
    InitAccounts({<<"W", "-">>}, <<"S">>, {<<"S", "=">>, <<"S", "*">>}, Shapes,
                 OneStandsOut(SeqVariants))

SpecSeq == InitSeq /\ [][Next]_vars

\* a pass that queued no update
Steady == AfterPass /\ last.changes = 0

\* the non-completed parentless tasks of a section that hold the label
ParentlessHolders(s) == {t \in NextHolders : Parentless(t) /\ tasks[t].section_id = s}

\* C6 as stated, read in its favour (no section or task declares a code, no
\* section is disabled, hide-future is off, completed tasks are left
\* aside): in an all-sequential project at steady state, exactly one
\* parentless task of the eligible section (the first section that holds
\* tasks) holds the label.
C6_ExactlyOne_AsStated ==
    (Steady /\ ProjectType = <<"s", "s", "s">>
        /\ NoSectionOrTaskType /\ NoSectionDisabled /\ config.hide_future = 0)
        => Cardinality(ParentlessHolders(FirstSectionWithTasks)) = 1

\* C6 (amended): in an all-sequential project where no section or task
\* declares a code, no section is disabled and hide-future is off, at
\* steady state no non-completed parentless task holds the label except the
\* first eligible parentless task by order of the first section that holds
\* tasks, and that task holds it when it has no eligible subtasks.
C6_ExactlyOne ==
    (Steady /\ ProjectType = <<"s", "s", "s">>
        /\ NoSectionOrTaskType /\ NoSectionDisabled /\ config.hide_future = 0)
    => /\ \A s \in SectionIds \ {FirstSectionWithTasks} : ParentlessHolders(s) = {}
       /\ IF EligibleParentless(FirstSectionWithTasks) = {}
          THEN ParentlessHolders(FirstSectionWithTasks) = {}
          ELSE LET f == FirstByOrder(EligibleParentless(FirstSectionWithTasks))
               IN /\ ParentlessHolders(FirstSectionWithTasks) \subseteq {f}
                  /\ EligibleChildren(f) = {} => HoldsNext(f)

\* a steady state after a pass that changed labels: two eligible parentless
\* tasks share the first section, and the first of them alone holds the label
C6_Witness ==
    /\ Steady /\ last.passes = 2 /\ ProjectType = <<"s", "s", "s">>
    /\ NoSectionOrTaskType /\ NoSectionDisabled /\ config.hide_future = 0
    /\ Cardinality(EligibleParentless(FirstSectionWithTasks)) >= 2
    /\ ParentlessHolders(FirstSectionWithTasks) =
          {FirstByOrder(EligibleParentless(FirstSectionWithTasks))}
    /\ \E t \in Tasks : ~Parentless(t)

ParVariants == TaskVariants \ {<<FALSE, <<"a", "=">>, None, 0>>,
                               <<FALSE, <<"a">>, Some(FarDays), 0>>}

InitPar ==
    InitAccounts({<<"W", "=">>}, <<"S">>, {<<"S", "-">>, <<"S", "*">>}, Shapes,
                 OneStandsOut(ParVariants))

SpecPar == InitPar /\ [][Next]_vars

NonCompletedChildren(t) == {c \in Children(t) : ~tasks[c].is_completed}

\* C7 as stated, read in its favour (no section or task declares a code, no
\* section is disabled, hide-future is off): in an all-parallel project,
\* after a pass every eligible parentless task holds the label.
C7_AllParentless_AsStated ==
    (AfterPass /\ ProjectType = <<"p", "p", "p">>
        /\ NoSectionOrTaskType /\ NoSectionDisabled /\ config.hide_future = 0)
    => \A t \in Tasks : (Parentless(t) /\ Eligible(t)) => HoldsNext(t)

\* C7 (amended): in an all-parallel project where no section or task
\* declares a code, no section is disabled and hide-future is off, after a
\* pass every eligible parentless task without non-completed subtasks holds
\* the label, in every section.
C7_AllParentless ==
    (AfterPass /\ ProjectType = <<"p", "p", "p">>
        /\ NoSectionOrTaskType /\ NoSectionDisabled /\ config.hide_future = 0)
    => \A t \in Tasks :
          (Parentless(t) /\ Eligible(t) /\ NonCompletedChildren(t) = {})
              => HoldsNext(t)

\* a pass over an all-parallel project labelled two parentless tasks that
\* lie in different sections and held no label before
C7_Witness ==
    /\ AfterPass /\ ProjectType = <<"p", "p", "p">>
    /\ NoSectionOrTaskType /\ NoSectionDisabled /\ config.hide_future = 0
    /\ \E a, b \in Tasks :
          /\ Parentless(a) /\ Parentless(b) /\ Eligible(a) /\ Eligible(b)
          /\ tasks[a].section_id # tasks[b].section_id
          /\ last.seen[a].labels = <<>> /\ last.seen[b].labels = <<>>
          /\ HoldsNext(a) /\ HoldsNext(b)

(***************************************************************************)
(* SpecMixed: the usual section is named "S-=", so its code is xsp, under  *)
(* an all-sequential project.                                              *)
(***************************************************************************)
MixedVariants == TaskVariants \ {<<FALSE, <<"a", "=">>, None, 0>>,
                                 <<FALSE, <<"a">>, Some(FarDays), 0>>}

InitMixed ==
    InitAccounts({<<"W", "-">>}, <<"S", "-", "=">>, {<<"S", "=", "-">>}, Shapes,
                 OneStandsOut(MixedVariants))

SpecMixed == InitMixed /\ [][Next]_vars

MixedSections == {s \in Sections : SectionType(s) = <<"x", "s", "p">>}

ParentlessOf(s) == {t \in TasksOf(s) : Parentless(t)}

StoreActive == get_active_singleton_tasks(db)

\* C11: when at most one non-completed task carries the singleton label, the
\* pass leaves every task's focus label as the snapshot had it (and, with
\* no next-action label configured, queues nothing), and the store-active
\* tasks are exactly the carriers: the one holder, or none.
C11_ResolvedIsQuiet ==
    (AfterPass /\ config.focus_label # "" /\ Cardinality(FocusCandidates(last.seen)) <= 1)
        => /\ \A t \in Tasks :
                Contains(FinalLabels(t), focus) <=> Contains(last.seen[t].labels, focus)
           /\ config.label = "" => queue = <<>>
           /\ StoreActive = FocusCandidates(last.seen)

\* a second pass over one holder, beside a task an earlier pass deactivated
C11_Witness ==
    /\ AfterPass /\ config.focus_label = focus /\ config.label = ""
    /\ last.passes = 2
    /\ queue = <<>> /\ updated_ids = <<>>
    /\ \E t \in Tasks :
        /\ FocusCandidates(last.seen) = {t}
        /\ StoreActive = {t}
        /\ \E u \in Tasks \ {t} : db.singleton[u].assigned_at # None

(***************************************************************************)
(* SpecConflict: the first pass over an empty store, the focus label on    *)
(* any of the tasks, updated_at absent or one of two instants.             *)
(***************************************************************************)
InitConflict ==
    /\ InitLoop
    /\ project = [name |-> <<"W", "-">>, is_inbox_project |-> FALSE]
    /\ sections = [s \in Sections |-> PlainSection]
    /\ \E lbl \in {"", next_action} :
          config = [label |-> lbl, focus_label |-> focus, hide_future |-> 0]
    /\ db = EmptyDB
    /\ \E lab \in [Tasks -> {<<>>, <<focus>>}],
          upd \in [Tasks -> {None, Some(1), Some(2)}],
          comp \in {c \in [Tasks -> BOOLEAN] : AtMostOneOff(c, FALSE)} :
          tasks = MkTasks([t \in Tasks |-> NoParent], [t \in Tasks |-> NoSectionId],
                          [t \in Tasks |-> t - FirstTaskId + 1],
                          [t \in Tasks |-> <<"a">>], lab, comp, NoDue, upd)

SpecConflict == InitConflict /\ [][Next]_vars

\* the activation time a task first seen at clock reading n gets
ActivationTime(T, t, n) == IF T[t].updated_at # None THEN T[t].updated_at[1] ELSE n

\* C12: in the first pass over an empty store with two or more candidates,
\* every candidate's stored activation time is its updated_at, or the
\* clock reading when updated_at is absent; one candidate of the latest
\* activation time keeps the label and every other candidate loses it.
C12_LatestKeepsLabel ==
    (AfterPass /\ last.passes = 1 /\ Cardinality(FocusCandidates(last.seen)) >= 2)
        => /\ \A t \in FocusCandidates(last.seen) :
                db.singleton[t].assigned_at = Some(ActivationTime(last.seen, t, now))
           /\ \E w \in FocusCandidates(last.seen) :
                /\ FocusHolders = {w}
                /\ last.winner = Some(w)
                /\ \A t \in FocusCandidates(last.seen) :
                      ActivationTime(last.seen, t, now) <= ActivationTime(last.seen, w, now)

\* three candidates, updated at different instants or not at all: the one
\* updated last keeps the label
C12_Witness ==
    /\ AfterPass /\ last.passes = 1
    /\ FocusCandidates(last.seen) = Tasks
    /\ \E w \in Tasks :
        /\ FocusHolders = {w}
        /\ last.seen[w].updated_at = Some(2)
        /\ \E t \in Tasks : last.seen[t].updated_at = Some(1)
        /\ \E t \in Tasks : last.seen[t].updated_at = None /\ now = 1
        /\ w # FirstTaskId

(***************************************************************************)
(* SpecSessions: start_singleton_session and end_singleton_session called  *)
(* in any order on one connection, for two labels and every task, at the   *)
(* clock reading of the call.  The table holds MaxRows rows at most.       *)
(***************************************************************************)
MaxRows == 3

doing_now == "doing_now"

SessionLabels == {focus, doing_now}

SessionTimes == IF now < MaxTime THEN {now, now + 1} ELSE {now}

InitSessions ==
    /\ queue = <<>> /\ updated_ids = <<>> /\ pc = "done" /\ now = 1 /\ last = NoPass
    /\ project = [name |-> <<"W">>, is_inbox_project |-> FALSE]
    /\ sections = [s \in Sections |-> PlainSection]
    /\ config = [label |-> "", focus_label |-> focus, hide_future |-> 0]
    /\ db = EmptyDB
    /\ tasks = MkTasks([t \in Tasks |-> NoParent], [t \in Tasks |-> NoSectionId],
                       [t \in Tasks |-> t - FirstTaskId + 1],
                       [t \in Tasks |-> <<"a">>], [t \in Tasks |-> <<>>],
                       [t \in Tasks |-> FALSE], NoDue, NoDue)
    /\ call = [op |-> "none", label_name |-> focus, task_id |-> FirstTaskId, at |-> 1]

StartSession ==
    /\ pc = "done"
    /\ \E l \in SessionLabels, t \in Tasks, at \in SessionTimes :
        /\ open_sessions(db, l, t) # {} \/ Len(db.history) < MaxRows
        /\ db' = start_singleton_session(db, l, t, at)
        /\ now' = at
        /\ call' = [op |-> "start", label_name |-> l, task_id |-> t, at |-> at]
    /\ UNCHANGED <<project, sections, tasks, config, queue, updated_ids, pc, last>>

EndSession ==
    /\ pc = "done"
    /\ \E l \in SessionLabels, t \in Tasks, at \in SessionTimes :
        /\ db' = end_singleton_session(db, l, t, at)
        /\ now' = at
        /\ call' = [op |-> "end", label_name |-> l, task_id |-> t, at |-> at]
    /\ UNCHANGED <<project, sections, tasks, config, queue, updated_ids, pc, last>>

NextSessions == StartSession \/ EndSession

SpecSessions == InitSessions /\ [][NextSessions]_vars

OpenFor(l, t) == open_sessions(db, l, t)

\* what a call may do to the table: a start while a session is open and an
\* end while none is open change nothing, and a closed row stays as it is
SessionCallKeeps ==
    /\ (call'.op = "start" /\ OpenFor(call'.label_name, call'.task_id) # {})
            => db'.history = db.history
    /\ (call'.op = "end" /\ OpenFor(call'.label_name, call'.task_id) = {})
            => db'.history = db.history
    /\ \A i \in 1..Len(db.history) :
            db.history[i].cleared_at # None
                => (Len(db'.history) >= i /\ db'.history[i] = db.history[i])

\* C14: at most one session is open per (label, task); a start while a
\* session is open and an end while none is open leave the table as it
\* was; no call alters a row whose cleared_at is recorded.
C14_SessionsIdempotent ==
    /\ [](\A l \in SessionLabels, t \in Tasks : Cardinality(OpenFor(l, t)) <= 1)
    /\ [][SessionCallKeeps]_vars

\* a start arrived later than the opening of the session that is open for
\* its label and task, after an earlier session of the pair was closed
C14_Witness ==
    /\ call.op = "start"
    /\ \E i, j \in 1..Len(db.history) :
        /\ i < j
        /\ db.history[i].label_name = call.label_name
        /\ db.history[i].task_id = call.task_id
        /\ db.history[i].cleared_at # None
        /\ OpenFor(call.label_name, call.task_id) = {j}
        /\ db.history[j].assigned_at < call.at

(***************************************************************************)
(* The focus history after a pass (SpecConflict).                          *)
(***************************************************************************)
ClosedFor(l, t) ==
    {i \in 1..Len(db.history) :
        /\ db.history[i].label_name = l
        /\ db.history[i].task_id = t
        /\ db.history[i].cleared_at # None}

\* C13: after a pass every store-active task has an open focus session and
\* no other task has one; after a pass that resolved a conflict every loser
\* has a closed session.
C13_SessionsFollowState ==
    (AfterPass /\ config.focus_label # "")
        => /\ \A t \in Tasks :
                db.singleton[t].is_active <=> OpenFor(config.focus_label, t) # {}
           /\ last.winner # None
                => \A t \in FocusCandidates(last.seen) \ {last.winner[1]} :
                      ClosedFor(config.focus_label, t) # {}

(***************************************************************************)
(* webui.py: the label actions and the reconcile endpoint of the           *)
(* dashboard.  They read the server's tasks, post label lists at once and  *)
(* write the metadata store through connections of their own.  One clock   *)
(* reading ts stands for the _now_ms() calls of one request.               *)
(***************************************************************************)
\* [l for l in labels if l != label]
RemoveAll(labels, label) == SelectSeq(labels, LAMBDA l : l # label)

mark_focus_active(d, t, ts) ==
    start_singleton_session(set_singleton_state(d, t, TRUE, Some(ts)), focus, t, ts)

mark_focus_inactive(d, t, ts) ==
    end_singleton_session(set_singleton_state(d, t, FALSE, None), focus, t, ts)

\* fetch_state: the open tasks that carry the focus label, in list order
focus_tasks_of(T) ==
    SelectSeq(AscendingList({t \in Tasks : ~T[t].is_completed}),
        LAMBDA t : Contains(T[t].labels, focus))

pick_winner(T, focus_tasks, preferred_task_id) ==
    choose_singleton_winner(T, focus_tasks, None, <<>>, preferred_task_id)

\* the preview of a conflict between focus_tasks with the winner chosen
conflict_preview(focus_tasks, winner) ==
    [conflict_detected |-> TRUE, winner_task_id |-> winner,
     updates |-> SelectSeq(focus_tasks, LAMBDA t : t # winner[1])]

\* [conflict_detected, winner_task_id, updates]; updates lists the losers,
\* whose to_labels are their labels without the focus label
preview_of(T, focus_tasks, preferred_task_id) ==
    IF Len(focus_tasks) <= 1
    THEN [conflict_detected |-> FALSE,
          winner_task_id |-> IF focus_tasks = <<>> THEN None ELSE Some(focus_tasks[1]),
          updates |-> <<>>]
    ELSE conflict_preview(focus_tasks, pick_winner(T, focus_tasks, preferred_task_id))

build_reconcile_preview(T, preferred_task_id) ==
    preview_of(T, focus_tasks_of(T), preferred_task_id)

\* the loop over the updates: post the loser's to_labels, mark it inactive
RECURSIVE apply_updates_to_losers(_, _, _, _)
apply_updates_to_losers(w, state, updates, ts) ==
    IF updates = <<>> THEN w
    ELSE apply_updates_to_losers(
            [tasks |-> [w.tasks EXCEPT ![Head(updates)].labels =
                            RemoveAll(state[Head(updates)].labels, focus)],
             db |-> mark_focus_inactive(w.db, Head(updates), ts)],
            state, Tail(updates), ts)

\* labels.append(focus_label) and the post, when the label is missing
with_focus(T, t) ==
    IF Contains(T[t].labels, focus) THEN T
    ELSE [T EXCEPT ![t].labels = Append(@, focus)]

\* the requests the dashboard serves in one behaviour
MaxRequests == 2

\* the server and the store after a request: w is [tasks, db]
WebDone(w, ts) ==
    /\ call.requests < MaxRequests
    /\ call' = [call EXCEPT !.requests = @ + 1]
    /\ tasks' = w.tasks
    /\ db' = w.db
    /\ now' = ts
    /\ UNCHANGED <<project, sections, config, queue, updated_ids, pc, last>>

\* action set_focus
WebSetFocus ==
    \E t \in Tasks, ts \in SessionTimes :
        /\ ~tasks[t].is_completed
        /\ WebDone([tasks |-> with_focus(tasks, t),
                    db |-> mark_focus_active(db, t, ts)], ts)

\* action clear_focus
WebClearFocus ==
    \E t \in Tasks, ts \in SessionTimes :
        /\ ~tasks[t].is_completed
        /\ WebDone([tasks |-> [tasks EXCEPT ![t].labels = RemoveAll(@, focus)],
                    db |-> mark_focus_inactive(db, t, ts)], ts)

\* action remove_next_action
WebRemoveNextAction ==
    \E t \in Tasks :
        /\ ~tasks[t].is_completed
        /\ WebDone([tasks |-> [tasks EXCEPT ![t].labels = RemoveAll(@, next_action)],
                    db |-> db], now)

\* action make_winner
WebMakeWinner ==
    \E t \in Tasks, ts \in SessionTimes :
        /\ ~tasks[t].is_completed
        /\ build_reconcile_preview(tasks, Some(t)).conflict_detected
        /\ WebDone(apply_updates_to_losers(
                        [tasks |-> with_focus(tasks, t),
                         db |-> mark_focus_active(db, t, ts)],
                        tasks, build_reconcile_preview(tasks, Some(t)).updates, ts),
                   ts)

\* the winner of an applied reconcile is marked active after the losers
reconcile_applied(w, winner_task_id, ts) ==
    [tasks |-> w.tasks, db |-> mark_focus_active(w.db, winner_task_id[1], ts)]

\* POST /api/focus/reconcile with apply set, over a conflict
WebReconcile ==
    \E winner_task_id \in {None} \cup {Some(t) : t \in Tasks}, ts \in SessionTimes :
        /\ build_reconcile_preview(tasks, winner_task_id).conflict_detected
        /\ WebDone(reconcile_applied(
                        apply_updates_to_losers([tasks |-> tasks, db |-> db], tasks,
                            build_reconcile_preview(tasks, winner_task_id).updates, ts),
                        build_reconcile_preview(tasks, winner_task_id).winner_task_id, ts),
                   ts)

NextWeb ==
    \/ RunPass \/ FlushQueue \/ FlushFail \/ SkipFlush
    \/ WebSetFocus \/ WebClearFocus \/ WebRemoveNextAction \/ WebMakeWinner
    \/ WebReconcile

(***************************************************************************)
(* SpecWeb: the engine in focus-only mode and the dashboard over the same  *)
(* account and store; an empty store, the focus label on any of the tasks. *)
(***************************************************************************)
InitWeb ==
    /\ queue = <<>> /\ updated_ids = <<>> /\ pc = "run" /\ now = 1 /\ last = NoPass
    /\ call = [requests |-> 0]
    /\ project = [name |-> <<"W">>, is_inbox_project |-> FALSE]
    /\ sections = [s \in Sections |-> PlainSection]
    /\ config = [label |-> "", focus_label |-> focus, hide_future |-> 0]
    /\ db = EmptyDB
    /\ \E lab \in [Tasks -> {<<>>, <<focus>>, <<next_action, focus>>}] :
          /\ \A t \in Tasks \ {FirstTaskId} : ~Contains(lab[t], next_action)
          /\ tasks = MkTasks([t \in Tasks |-> NoParent], [t \in Tasks |-> NoSectionId],
                          [t \in Tasks |-> t - FirstTaskId + 1],
                          [t \in Tasks |-> <<"a">>], lab,
                          [t \in Tasks |-> FALSE], NoDue, NoDue)

SpecWeb == InitWeb /\ [][NextWeb]_vars

\* C15: a step of the engine or of the dashboard over which a task carries
\* the focus label on the server before and after leaves the task's stored
\* activation time, once recorded, as it was.
C15_AssignedAtIsFirstSeen ==
    [][\A t \in Tasks :
            (/\ Contains(tasks[t].labels, focus)
             /\ Contains(tasks'[t].labels, focus)
             /\ db.singleton[t].assigned_at # None)
                => db'.singleton[t].assigned_at = db.singleton[t].assigned_at]_vars

(***************************************************************************)
(* SpecParse: parse_type_suffix called on names of MaxLen characters at    *)
(* most, for each pair of suffix characters and each width.                *)
(***************************************************************************)
MaxLen == 3

NameChars == {"a", "-", "=", "\n"}

Names == UNION {[1..n -> NameChars] : n \in 0..MaxLen}

SuffixChars == {"-", "="}

InitParse ==
    /\ queue = <<>> /\ updated_ids = <<>> /\ pc = "done" /\ now = 1 /\ last = NoPass
    /\ project = [name |-> <<"W">>, is_inbox_project |-> FALSE]
    /\ sections = [s \in Sections |-> PlainSection]
    /\ config = PlainConfig
    /\ db = EmptyDB
    /\ tasks = MkTasks([t \in Tasks |-> NoParent], [t \in Tasks |-> NoSectionId],
                       [t \in Tasks |-> t - FirstTaskId + 1],
                       [t \in Tasks |-> <<"a">>], [t \in Tasks |-> <<>>],
                       [t \in Tasks |-> FALSE], NoDue, NoDue)
    /\ \E name \in Names, s \in SuffixChars, p \in SuffixChars, width \in 1..3 :
          call = [name |-> name, s_suffix |-> s, p_suffix |-> p, width |-> width,
                  returned |-> FALSE, result |-> None]

\* a direct call of parse_type_suffix
ParseSuffix ==
    /\ ~call.returned
    /\ call' = [call EXCEPT
                   !.returned = TRUE,
                   !.result = parse_type_suffix(call.name, call.s_suffix,
                                                call.p_suffix, call.width)]
    /\ UNCHANGED <<project, sections, tasks, config, db, queue, updated_ids, pc, now, last>>

SpecParse == InitParse /\ [][ParseSuffix]_vars

IsSuffixChar(c) == c = call.s_suffix \/ c = call.p_suffix

\* the length of the run of suffix characters that ends the name
RECURSIVE RunAtEnd(_)
RunAtEnd(name) ==
    IF name = <<>> \/ ~IsSuffixChar(name[Len(name)]) THEN 0
    ELSE 1 + RunAtEnd(SubSeq(name, 1, Len(name) - 1))

\* the code the contract gives a name that ends in a run of k suffix characters
ContractCode(name, k) ==
    LET n == IF k < call.width THEN k ELSE call.width
        taken == SubSeq(name, Len(name) - n + 1, Len(name))
        ext == taken \o [i \in 1..(call.width - n) |-> taken[n]]
    IN [i \in 1..(3 - call.width) |-> "x"]
         \o [i \in 1..call.width |-> IF ext[i] = call.s_suffix THEN "s" ELSE "p"]

\* C16: the call returns None exactly when the name does not end in a
\* suffix character, and otherwise three characters: 3 - width times x,
\* then the last up-to-width suffix characters as s or p, a short run
\* extended by its last character.
C16_ParseContract ==
    call.returned =>
        IF RunAtEnd(call.name) = 0 THEN call.result = None
        ELSE /\ Len(call.result) = 3
             /\ call.result = ContractCode(call.name, RunAtEnd(call.name))

(***************************************************************************)
(* SpecDominant: resolve_dominant_type called on every combination of an   *)
(* absent or declared code at the three levels.                            *)
(***************************************************************************)
TypeCodes == {pad_type_str_to_three(c) : c \in UNION {[1..w -> {"s", "p"}] : w \in 1..3}}

OptionalCodes == {None} \cup TypeCodes

InitDominant ==
    /\ queue = <<>> /\ updated_ids = <<>> /\ pc = "done" /\ now = 1 /\ last = NoPass
    /\ project = [name |-> <<"W">>, is_inbox_project |-> FALSE]
    /\ sections = [s \in Sections |-> PlainSection]
    /\ config = PlainConfig
    /\ db = EmptyDB
    /\ tasks = MkTasks([t \in Tasks |-> NoParent], [t \in Tasks |-> NoSectionId],
                       [t \in Tasks |-> t - FirstTaskId + 1],
                       [t \in Tasks |-> <<"a">>], [t \in Tasks |-> <<>>],
                       [t \in Tasks |-> FALSE], NoDue, NoDue)
    /\ \E tt \in OptionalCodes, st \in OptionalCodes, pt \in OptionalCodes :
          call = [task_type |-> tt, section_type |-> st, project_type |-> pt,
                  returned |-> FALSE, result |-> None]

\* a direct call of resolve_dominant_type
ResolveDominant ==
    /\ ~call.returned
    /\ call' = [call EXCEPT
                   !.returned = TRUE,
                   !.result = resolve_dominant_type(call.task_type, call.section_type,
                                                    call.project_type)]
    /\ UNCHANGED <<project, sections, tasks, config, db, queue, updated_ids, pc, now, last>>

SpecDominant == InitDominant /\ [][ResolveDominant]_vars

\* the codes of the call by precedence: task, section, project
LevelCodes == <<call.task_type, call.section_type, call.project_type>>

PresentLevels == {i \in 1..3 : LevelCodes[i] # None}

\* C17: the result is None when no level has a code; otherwise every one
\* of its three positions is the position of the code of the first level,
\* in the order task, section, project, that has one.
C17_FirstPresentLevelWins ==
    call.returned =>
        IF PresentLevels = {} THEN call.result = None
        ELSE \E w \in PresentLevels :
                /\ \A i \in PresentLevels : w <= i
                /\ Len(call.result) = 3
                /\ \A k \in 1..3 : call.result[k] = LevelCodes[w][k]

\* a section code with an x position wins over a project code that has a
\* letter there
C17_Witness ==
    /\ call.returned
    /\ call.task_type = None
    /\ call.section_type = <<"x", "x", "s">>
    /\ call.project_type = <<"p", "p", "p">>
    /\ call.result = <<"x", "x", "s">>

(***************************************************************************)
(* SpecHeader: accounts in which the project, the section or one task may  *)
(* carry a header command ('** ' or '-* '), under a sequential project.    *)
(***************************************************************************)
HeaderAll == <<"*", "*", " ">>
UnheaderAll == <<"-", "*", " ">>
HeaderPrefix == <<"*", " ">>

\* the contents a task may stand out with: a command or a header
CommandedContents ==
    {HeaderAll \o <<"a">>, UnheaderAll \o <<"a">>, HeaderPrefix \o <<"a">>}

ContentsOneOff ==
    {con \in [Tasks -> CommandedContents \cup {<<"a">>}] : AtMostOneOff(con, <<"a">>)}

\* every task in no section, or every task in the first section
OneSection == {[t \in Tasks |-> s] : s \in {NoSectionId, 1}}

InitHeader ==
    /\ InitLoop
    /\ \E name \in {<<"W", "-">>, HeaderAll \o <<"W", "-">>, UnheaderAll \o <<"W", "-">>} :
          project = [name |-> name, is_inbox_project |-> FALSE]
    /\ \E name \in {<<"S">>, HeaderAll \o <<"S">>} :
          sections = [s \in Sections |-> [name |-> name]]
    /\ config = PlainConfig
    /\ db = EmptyDB
    /\ \E par \in Shapes, ord \in Orders, con \in ContentsOneOff, sec \in OneSection :
       \E lab \in {[t \in Tasks |-> <<>>], [t \in Tasks |-> <<next_action>>]} :
          tasks = MkTasks(par, sec, ord, con, lab, [t \in Tasks |-> FALSE],
                          NoDue, NoDue)

SpecHeader == InitHeader /\ [][Next]_vars

\* the latest pass wrote the header prefix in front of the content of t
ReceivedHeader(t) ==
    /\ last.passes > 0
    /\ ~StartsWith(last.seen[t].content, HeaderPrefix)
    /\ StartsWith(tasks[t].content, HeaderPrefix)

\* C20: a task that receives the header prefix during a pass, from a '**'
\* command on itself, on an ancestor task, on its section or on its
\* project, does not hold the next-action label after that pass.
C20_HeaderedInSamePass ==
    AfterPass =>
        \A t \in Tasks :
            (ReceivedHeader(t) /\ ~tasks[t].is_completed) => ~HoldsNext(t)

\* the section of t is disabled
InDisabledSection(t) == is_section_disabled(sections, tasks[t].section_id)

\* t was a header in the snapshot of the latest pass and is one after it
HeaderThroughout(t) ==
    /\ last.passes > 0
    /\ is_header_task(last.seen[t].content)
    /\ is_header_task(tasks[t].content)

\* C19: after a pass no non-completed task whose content begins with '*'
\* and no non-completed task of a section whose name starts or ends with
\* '*' holds the next-action label.
C19_NoLabelOnHeaders ==
    AfterPass =>
        \A t \in Tasks :
            (~tasks[t].is_completed /\ (HeaderThroughout(t) \/ InDisabledSection(t)))
                => ~HoldsNext(t)

(***************************************************************************)
(* SpecRename: accounts whose tasks may declare a code of their own, and   *)
(* a user who removes the code from a task's content between two passes.   *)
(***************************************************************************)
CodedContents == {<<"a">>, <<"a", "-">>, <<"a", "=">>}

\* call.edited: the task the user edited last
InitRename ==
    /\ queue = <<>> /\ updated_ids = <<>> /\ pc = "run" /\ now = 1 /\ last = NoPass
    /\ call = [edited |-> None]
    /\ \E name \in {<<"W">>, <<"W", "-">>, <<"W", "=">>} :
          project = [name |-> name, is_inbox_project |-> FALSE]
    /\ sections = [s \in Sections |-> PlainSection]
    /\ config = PlainConfig
    /\ db = EmptyDB
    /\ \E par \in Shapes, ord \in Orders, con \in [Tasks -> CodedContents] :
       \E lab \in {[t \in Tasks |-> <<>>], [t \in Tasks |-> <<next_action>>]} :
          tasks = MkTasks(par, [t \in Tasks |-> NoSectionId], ord, con, lab,
                          [t \in Tasks |-> FALSE], NoDue, NoDue)

\* between two passes the user edits a task that declares a code and
\* leaves the content without it
DropCode ==
    /\ pc = "run"
    /\ last.passes > 0
    /\ \E t \in Tasks :
          /\ parse_type_suffix(tasks[t].content, s_suffix, p_suffix, 1) # None
          /\ tasks' = [tasks EXCEPT ![t].content = <<"a">>]
          /\ call' = [edited |-> Some(t)]
    /\ UNCHANGED <<project, sections, config, db, queue, updated_ids, pc, now, last>>

NextRename == RunPass \/ FlushQueue \/ FlushFail \/ SkipFlush \/ DropCode

SpecRename == InitRename /\ [][NextRename]_vars

\* a pass begins in which task t, which the pass processes, has a stored
\* code but a content that declares none
CodeDropped(t) ==
    /\ pc = "run" /\ pc' = "flush"
    /\ Eligible(t) /\ ~InDisabledSection(t)
    /\ get_type_str(db, "task", t) # None
    /\ TaskType(t) = None

\* after the step, subtask c lacks the label and its stored codes are clear
SubtaskCleared(c) ==
    /\ ~HoldsNext(c)'
    /\ get_type_str(db', "task", c) = None
    /\ get_parent_type(db', c) = ""

C18_Step_AsStated ==
    \A t \in Tasks : CodeDropped(t) => \A c \in Children(t) : SubtaskCleared(c)

\* C18 as stated: when a task's own code changes from declared to absent
\* between two passes, after the next pass every subtask of the task lacks
\* the next-action label and has its stored own code and stored inherited
\* slot cleared.
C18_SubtasksCleared_AsStated == [][C18_Step_AsStated]_vars

\* the code that governs task t once it declares none of its own
CodeAbove(t) ==
    resolve_dominant_type(None, SectionType(tasks[t].section_id), ProjectType)

\* after the step, the stored codes of subtask c are those the pass derives
\* anew: its own code from its content, its inherited slot from the code
\* that now governs its parent t; without such a code c is without label
SubtaskRederived(t, c) ==
    /\ Eligible(c) => get_type_str(db', "task", c) = TaskType(c)
    /\ Eligible(c) => get_parent_type(db', c) =
                          IF CodeAbove(t) = None THEN "" ELSE CodeAbove(t)[3]
    /\ HoldsNext(c)' => CodeAbove(t) # None

C18_Step ==
    \A t \in Tasks :
        (CodeDropped(t) /\ Parentless(t)) => \A c \in Children(t) : SubtaskRederived(t, c)

\* C18 (amended): when the own code of a parentless task changes from
\* declared to absent between two passes, after the next pass every
\* non-completed, non-header direct subtask has as stored own code the
\* code its own content declares (none when it declares none) and as
\* stored inherited slot the subtask slot of the section or project code
\* that now governs the task (cleared when there is none), and a direct
\* subtask holds the next-action label only when such a code exists.
C18_SubtasksRederived == [][C18_Step]_vars

\* a pass has handled the edit of a parentless task under a sequential
\* project: the task's stored code is gone, and a subtask without a code
\* of its own holds the label again and has the project's slot stored
C18_Witness ==
    /\ AfterPass
    /\ ProjectType = <<"s", "s", "s">>
    /\ \E t \in Tasks :
          /\ call.edited = Some(t)
          /\ Parentless(t)
          /\ TaskType(t) = None
          /\ get_type_str(db, "task", t) = None
          /\ \E c \in Children(t) :
                /\ TaskType(c) = None
                /\ HoldsNext(c)
                /\ get_parent_type(db, c) = "s"

\* the latest pass found the due date of t at the threshold or beyond it
DueFar(t) ==
    /\ last.passes > 0
    /\ last.seen[t].due # None
    /\ last.seen[t].due[1] >= config.hide_future

\* C21: with a positive hide-future threshold, after a pass no
\* non-completed task that is due the threshold or more days ahead holds
\* the next-action label, and no non-completed child of such a task does.
C21_FarDueHidden ==
    (AfterPass /\ config.hide_future > 0)
        => \A t \in Tasks :
              (DueFar(t) /\ ~tasks[t].is_completed)
                => /\ ~HoldsNext(t)
                   /\ \A c \in NonCompletedChildren(t) : ~HoldsNext(c)

\* neither t nor its section nor the project declares a code
NoCodeAtAnyLevel(t) ==
    /\ TaskType(t) = None
    /\ SectionType(tasks[t].section_id) = None
    /\ ProjectType = None

MaxFailures == 1

\* the variant whose handler clears the store before it returns
fetch_failed_after_reset(d) == [changes |-> 0, queued |-> <<>>, db |-> EmptyDB]

\* what run() hands back from the except branch: nothing queued, store as is
fetch_failed(d) == [changes |-> 0, queued |-> <<>>, db |-> d]

FetchFails ==
    /\ pc = "run"
    /\ config.label # "" \/ config.focus_label # ""
    /\ call.failures < MaxFailures
    /\ LET r == fetch_failed(db) IN
          /\ db' = r.db
          /\ queue' = queue \o r.queued
          /\ last' = [last EXCEPT !.changes = r.changes]
    /\ call' = [failures |-> call.failures + 1]
    /\ pc' = "flush"
    /\ UNCHANGED <<project, sections, tasks, config, updated_ids, now>>

InitFetch ==
    /\ queue = <<>> /\ updated_ids = <<>>
    /\ pc = "run"
    /\ now = 1
    /\ last = NoPass
    /\ call = [failures |-> 0]
    /\ project = [name |-> <<"W", "-">>, is_inbox_project |-> FALSE]
    /\ sections = [s \in Sections |-> PlainSection]
    /\ config = [label |-> next_action, focus_label |-> focus, hide_future |-> 0]
    /\ \E st \in StoreStates : db = [EmptyDB EXCEPT !.singleton = st]
    /\ \E lab \in [Tasks -> {<<>>, <<focus>>}], upd \in [Tasks -> {None, Some(2)}] :
          tasks = MkTasks([t \in Tasks |-> NoParent], [t \in Tasks |-> NoSectionId],
                          [t \in Tasks |-> t - FirstTaskId + 1],
                          [t \in Tasks |-> <<"a">>], lab,
                          [t \in Tasks |-> FALSE], NoDue, upd)

NextFetch == RunPass \/ FetchFails \/ FlushQueue \/ FlushFail \/ SkipFlush

SpecFetch == InitFetch /\ [][NextFetch]_vars

\* the step of a pass whose fetch raised
FetchRaised == call'.failures > call.failures

C23_Step ==
    FetchRaised => /\ last'.changes = 0
                   /\ queue' = queue
                   /\ updated_ids' = updated_ids
                   /\ db' = db

\* C23: a pass whose fetch of projects, sections or tasks raises returns 0,
\* queues no label update and leaves the metadata store (stored codes,
\* singleton state, sessions) exactly as it was
C23_FetchFailureWritesNothing == [][C23_Step]_vars

\* a failed pass over an account and a store that a successful pass would
\* have changed
C23_Witness ==
    /\ pc = "flush" /\ call.failures > 0
    /\ queue = <<>>
    /\ db # EmptyDB
    /\ LET r == run(tasks, project, sections, config, db, now) IN
          r.changes > 0 /\ r.db # db


(***************************************************************************)
(* The commit of a pass (_commit_label_changes, lines 815-831) against     *)
(* the labels the pass tracked (_get_current_labels, lines 779-793).       *)
(***************************************************************************)
\* the engine of the pass that starts in this state, before its commit
TrackedBy(now_ms) ==
    reconcile_focus(label_projects(NewEngine(db), tasks, project, sections, config),
                    tasks, config, now_ms)

\* the updates the step appended to the queue
NewlyQueued == SubSeq(queue', Len(queue) + 1, Len(queue'))

C24_Step ==
    (pc = "run" /\ pc' = "flush")
        => LET e == TrackedBy(now')
               new == NewlyQueued
           IN /\ \A t \in Tasks :
                    (\E i \in DOMAIN new : new[i].id = t)
                        <=> Range(get_current_labels(e, tasks, t)) # Range(tasks[t].labels)
              /\ \A i, j \in DOMAIN new : new[i].id = new[j].id => i = j
              /\ \A i \in DOMAIN new :
                    new[i].labels = get_current_labels(e, tasks, new[i].id)
              /\ last'.changes = Len(new)

\* C24: a pass queues a label update for a task exactly when the task's
\* final desired label set differs from the label set first read for it
\* (compared as unordered sets), queues at most one update per task, and
\* returns the number of updates it queued
C24_QueuedIffSetDiffers == [][C24_Step]_vars

\* a pass that queued an update for one task and none for a task of a
\* subtask cascade whose label set came out as it was first read
C24_Witness ==
    /\ AfterPass /\ last.changes > 0 /\ last.changes = Len(queue)
    /\ \E t \in last.received :
          /\ Contains(last.seen[t].labels, next_action)
          /\ HoldsNext(t)
          /\ \A i \in DOMAIN queue : queue[i].id # t


(***************************************************************************)
(* The inbox (run, lines 261-269; tests/test_inbox_contract.py): the       *)
(* account's project is the inbox or a regular project, with a code or a   *)
(* header command in its name, tasks with and without codes and labels,    *)
(* with or without a focus label configured.                               *)
(***************************************************************************)
InitInbox ==
    /\ InitLoop
    /\ \E name \in {<<"W", "-">>, HeaderAll \o <<"W", "-">>}, inbox \in BOOLEAN :
          project = [name |-> name, is_inbox_project |-> inbox]
    /\ sections = [s \in Sections |-> PlainSection]
    /\ \E foc \in {"", focus} :
          config = [label |-> next_action, focus_label |-> foc, hide_future |-> 0]
    /\ db = EmptyDB
    /\ \E par \in Shapes,
          con \in {c \in [Tasks -> {<<"a">>, <<"a", "-">>}] : AtMostOneOff(c, <<"a">>)},
          lab \in [Tasks -> {<<>>, <<next_action, focus>>}] :
          tasks = MkTasks(par, [t \in Tasks |-> NoSectionId],
                          [t \in Tasks |-> t - FirstTaskId + 1], con, lab,
                          [t \in Tasks |-> FALSE], NoDue, NoDue)

SpecInbox == InitInbox /\ [][Next]_vars

\* no entity has a stored code or a stored inherited slot
NothingStored ==
    /\ \A k \in EntityKeys : db.type_str[k] = None
    /\ \A t \in Tasks : db.parent_type[t] = ""

\* every queued update leaves the next-action label as the snapshot has it
NextActionUntouched ==
    \A i \in DOMAIN queue :
        Contains(queue[i].labels, next_action)
            <=> Contains(last.seen[queue[i].id].labels, next_action)

\* C25: a pass skips a project flagged as inbox: it takes no processing
\* step for it (no cascade, no header command carried out), stores no code
\* for it or its tasks and queues no next-action label change for its tasks
C25_InboxSkipped ==
    (AfterPass /\ project.is_inbox_project)
        => /\ NothingStored
           /\ NextActionUntouched
           /\ last.received = {} /\ updated_ids = <<>>

\* a pass over an inbox whose name and tasks would have been labelled,
\* stored and renamed had the project been a regular one
C25_Witness ==
    /\ AfterPass /\ project.is_inbox_project
    /\ config.focus_label # "" /\ queue # <<>>
    /\ LET r == run(tasks, [project EXCEPT !.is_inbox_project = FALSE], sections,
                    config, db, now)
       IN /\ r.rest # <<>>
          /\ r.db.type_str # db.type_str
          /\ \E i \in DOMAIN r.queued :
                Contains(r.queued[i].labels, next_action)
                    # Contains(tasks[r.queued[i].id].labels, next_action)


(***************************************************************************)
(* Blocking labels (tests/test_labeling_engine_regressions.py, lines       *)
(* 113-150): the configuration names the labels that block a task.  The    *)
(* engine reads label, focus_label, hide_future and the two suffixes of    *)
(* its configuration and nothing else (labeling.py), so the field is       *)
(* carried by config and never read by a pass.                             *)
(***************************************************************************)
waiting == "waiting"

\* the labels the tasks of the test carry, and their combinations
BlockedLabelLists == {<<>>, <<waiting>>, <<next_action>>, <<waiting, next_action>>}

InitBlocked ==
    /\ InitLoop
    /\ \E name \in {<<"W", "-">>, <<"W", "-", "-", "-">>} :
          project = [name |-> name, is_inbox_project |-> FALSE]
    /\ sections = [s \in Sections |-> PlainSection]
    /\ config = [label |-> next_action, focus_label |-> "", hide_future |-> 0,
                 blocking_labels |-> {waiting}]
    /\ db = EmptyDB
    /\ \E ord \in Orders, lab \in [Tasks -> BlockedLabelLists] :
          tasks = MkTasks([t \in Tasks |-> NoParent], [t \in Tasks |-> NoSectionId],
                          ord, [t \in Tasks |-> <<"a">>], lab,
                          [t \in Tasks |-> FALSE], NoDue, NoDue)

SpecBlocked == InitBlocked /\ [][Next]_vars

\* the snapshot of task t carries a configured blocking label
Blocked(t) == \E l \in config.blocking_labels : Contains(last.seen[t].labels, l)

\* the parentless tasks of the project that no blocking label excludes
Unblocked == {t \in Tasks : Parentless(t) /\ Eligible(t) /\ ~Blocked(t)}

\* C26: a parentless task that carries a configured blocking label does
\* not hold the next-action label after a pass and keeps its other labels,
\* and it does not count as the first task of a sequential section: the
\* first eligible task without a blocking label holds the label
C26_BlockedTaskYields ==
    AfterPass
        => /\ \A t \in Tasks :
                (Parentless(t) /\ ~tasks[t].is_completed /\ Blocked(t))
                    => /\ ~HoldsNext(t)
                       /\ RemoveAll(FinalLabels(t), next_action)
                            = RemoveAll(last.seen[t].labels, next_action)
           /\ Unblocked # {} => HoldsNext(FirstByOrder(Unblocked))


(***************************************************************************)
(* The store after the reconciler (_reconcile_singleton_label, lines       *)
(* 289-338; get_active_singleton_tasks, db.py 312-323).                    *)
(***************************************************************************)
\* the rows an earlier pass or dashboard request left active, at most one
ActiveRows ==
    {st \in StoreStates : \A t \in Tasks : st[t].assigned_at # None => st[t].is_active}

InitStore ==
    /\ InitLoop
    /\ project = [name |-> <<"W", "-">>, is_inbox_project |-> FALSE]
    /\ sections = [s \in Sections |-> PlainSection]
    /\ \E lbl \in {"", next_action} :
          config = [label |-> lbl, focus_label |-> focus, hide_future |-> 0]
    /\ \E st \in ActiveRows : db = [EmptyDB EXCEPT !.singleton = st]
    /\ \E lab \in [Tasks -> {<<>>, <<focus>>}], upd \in [Tasks -> {None, Some(2)}],
          comp \in {c \in [Tasks -> BOOLEAN] : AtMostOneOff(c, FALSE)} :
          tasks = MkTasks([t \in Tasks |-> NoParent], [t \in Tasks |-> NoSectionId],
                          [t \in Tasks |-> t - FirstTaskId + 1],
                          [t \in Tasks |-> <<"a">>], lab, comp, NoDue, upd)

SpecStore == InitStore /\ [][Next]_vars

C27_Step ==
    (pc = "run" /\ pc' = "flush" /\ config.focus_label # "")
        => /\ StoreActive' = FocusHolders'
           /\ \A t \in StoreActive :
                 ~Contains(tasks[t].labels, focus) => ~db'.singleton[t].is_active

\* C27: after every completed pass the tasks persisted as active for the
\* singleton label are exactly the non-completed tasks that hold the label
\* in their final label list, and a task persisted active before the pass
\* that no longer carries the label is persisted inactive
C27_StoreFollowsLabels == [][C27_Step]_vars

\* the first pass found a task active in the store without the label (no
\* row starts inactive, and a loser carries the label), and two carriers
\* of which it kept one
C27_Witness ==
    /\ AfterPass /\ last.passes = 1
    /\ Cardinality(FocusCandidates(last.seen)) >= 2
    /\ Cardinality(StoreActive) = 1 /\ StoreActive = FocusHolders
    /\ \E t \in Tasks :
          /\ ~Contains(last.seen[t].labels, focus)
          /\ db.singleton[t].assigned_at # None
          /\ ~db.singleton[t].is_active


(***************************************************************************)
(* Other writers between a pass and its flush (__main__.py 86-109; the     *)
(* dashboard's task_label_action, webui.py 1094-1146): a queued update     *)
(* carries the complete label list the pass computed from its snapshot     *)
(* (queue_label_update, api.py 207-221).                                   *)
(***************************************************************************)
LabelNames == {next_action, focus}

\* another writer changed label l of task t after the pass read its snapshot
ChangedSinceSnapshot(t, l) ==
    Contains(tasks[t].labels, l) # Contains(last.seen[t].labels, l)

\* the pass queued an update that changes label l of task t
EngineDecided(t, l) ==
    \E i \in DOMAIN queue :
        /\ queue[i].id = t
        /\ Contains(queue[i].labels, l) # Contains(last.seen[t].labels, l)

C28_Step ==
    (pc = "flush" /\ pc' = "run")
        => \A t \in Tasks, l \in LabelNames :
              (ChangedSinceSnapshot(t, l) /\ ~EngineDecided(t, l))
                  => Contains(tasks'[t].labels, l) = Contains(tasks[t].labels, l)

\* C28: a label change another writer made to a task after the pass read
\* its snapshot and before the queued updates are flushed is not undone by
\* the flush: the engine's update leaves alone every label it did not
\* itself decide to change
C28_FlushKeepsForeignChanges == [][C28_Step]_vars


(***************************************************************************)
(* start_singleton_session on separate connections (db.py 395-434; each    *)
(* dashboard request opens a connection of its own with auto_commit,       *)
(* webui.py 652-678).  The call is two statements: the SELECT of the open  *)
(* sessions of (label, task), then, when it returned no row, the INSERT    *)
(* and its commit.  A statement is atomic; the statements of two           *)
(* connections interleave.  call[c] is the position of connection c; the   *)
(* label is the dashboard's focus label.                                   *)
(***************************************************************************)
MaxConns == 2

Conns == 1..MaxConns

Idle == [at |-> "idle", label_name |-> focus, task_id |-> FirstTaskId,
         assigned_at |-> 1, found |-> FALSE]

InitRace ==
    /\ queue = <<>> /\ updated_ids = <<>> /\ pc = "done" /\ now = 1 /\ last = NoPass
    /\ project = [name |-> <<"W">>, is_inbox_project |-> FALSE]
    /\ sections = [s \in Sections |-> PlainSection]
    /\ config = [label |-> "", focus_label |-> focus, hide_future |-> 0]
    /\ db = EmptyDB
    /\ tasks = MkTasks([t \in Tasks |-> NoParent], [t \in Tasks |-> NoSectionId],
                       [t \in Tasks |-> t - FirstTaskId + 1],
                       [t \in Tasks |-> <<"a">>], [t \in Tasks |-> <<>>],
                       [t \in Tasks |-> FALSE], NoDue, NoDue)
    /\ call = [c \in Conns |-> Idle]

\* lines 406-418: the SELECT and cursor.fetchone()
SessionSelect ==
    /\ pc = "done"
    /\ Len(db.history) < MaxRows
    /\ \E c \in Conns, l \in {config.focus_label}, t \in Tasks, at \in SessionTimes :
        /\ call[c].at = "idle"
        /\ call' = [call EXCEPT ![c] =
                        [at |-> "selected", label_name |-> l, task_id |-> t,
                         assigned_at |-> at, found |-> open_sessions(db, l, t) # {}]]
        /\ now' = at
    /\ UNCHANGED <<project, sections, tasks, config, db, queue, updated_ids, pc, last>>

\* lines 417-434: return when a row was fetched, else INSERT and commit
SessionInsert ==
    /\ pc = "done"
    /\ \E c \in Conns :
        /\ call[c].at = "selected"
        /\ db' = IF call[c].found THEN db
                 ELSE start_singleton_session_always(
                          db, call[c].label_name, call[c].task_id, call[c].assigned_at)
        /\ call' = [call EXCEPT ![c] = Idle]
    /\ UNCHANGED <<project, sections, tasks, config, queue, updated_ids, pc, now, last>>

\* end_singleton_session for a task with an open session (one UPDATE)
SessionEnd ==
    /\ pc = "done"
    /\ \E l \in {config.focus_label}, t \in Tasks :
        /\ open_sessions(db, l, t) # {}
        /\ db' = end_singleton_session(db, l, t, now)
    /\ UNCHANGED <<project, sections, tasks, config, queue, updated_ids, pc, now, last, call>>

NextRace == SessionSelect \/ SessionInsert \/ SessionEnd

SpecRace == InitRace /\ [][NextRace]_vars

\* C29: at most one focus session is open per (label, task) in every
\* reachable state, also when start_singleton_session runs on separate
\* connections at the same time
C29_OneOpenSessionPerTask ==
    \A l \in SessionLabels, t \in Tasks : Cardinality(open_sessions(db, l, t)) <= 1


(***************************************************************************)
(* The parallel subtask cascade (_label_task_with_children, lines 623-689, *)
(* the branch of lines 677-689).                                           *)
(***************************************************************************)
\* the code the cascade of task t goes by: through the hierarchy for a
\* parentless task, the own code or the stored inherited slot for a subtask
CascadeType(t) ==
    IF Parentless(t)
    THEN resolve_dominant_type(TaskType(t), SectionType(tasks[t].section_id), ProjectType)
    ELSE IF TaskType(t) # None THEN TaskType(t)
    ELSE IF get_parent_type(db, t) # "" THEN Some(<<"x", "x", get_parent_type(db, t)>>)[1]
    ELSE None

CascadeSlotP(t) == CascadeType(t) # None /\ CascadeType(t)[3] = "p"

\* C30 (tasks of disabled sections left aside): after a pass with
\* hide-future disabled, a non-completed, non-header task whose cascade
\* slot is p and that has a non-completed, non-header child does not hold
\* the next-action label, and each of its non-completed, non-header
\* children that has no subtasks of its own holds it
C30_ParallelCascade ==
    (AfterPass /\ config.hide_future = 0)
        => \A t \in Tasks :
              (Eligible(t) /\ ~InDisabledSection(t) /\ CascadeSlotP(t)
                    /\ EligibleChildren(t) # {})
                  => /\ ~HoldsNext(t)
                     /\ \A c \in EligibleChildren(t) : Children(c) = {} => HoldsNext(c)


(***************************************************************************)
(* The section slot (_label_parentless_task, lines 584-621; the loop over  *)
(* the sections in _process_project, lines 382-395, NoSection first).      *)
(***************************************************************************)
\* the code that governs parentless task t
DominantType(t) ==
    resolve_dominant_type(TaskType(t), SectionType(tasks[t].section_id), ProjectType)

SectionSlotS(t) == DominantType(t) # None /\ DominantType(t)[1] = "s"

\* C31 (completed tasks left aside): a parentless task whose dominant code
\* has section slot s and that lies in a section after the first section of
\* the project that contains tasks is not selected by the parentless rule,
\* does not hold the label after the pass and loses it if the snapshot had
\* it
C31_LaterSectionsUnlabelled ==
    AfterPass
        => \A t \in Tasks :
              (Parentless(t) /\ ~tasks[t].is_completed /\ SectionSlotS(t)
                    /\ tasks[t].section_id # FirstSectionWithTasks)
                  => ~HoldsNext(t) /\ t \notin last.selected

\* a pass that took the label from an eligible parentless task of a later
\* section and selected a task of the first section
C31_Witness ==
    /\ AfterPass
    /\ \E t \in Tasks :
          /\ Parentless(t) /\ Eligible(t) /\ SectionSlotS(t)
          /\ ~InDisabledSection(t)
          /\ tasks[t].section_id # FirstSectionWithTasks
          /\ Contains(last.seen[t].labels, next_action)
          /\ \E i \in DOMAIN queue : queue[i] = [id |-> t, labels |-> <<>>]
    /\ \E u \in last.selected : tasks[u].section_id = FirstSectionWithTasks


(***************************************************************************)
(* The processing order of a section (_process_section, lines 436-467):    *)
(* the section's tasks sorted by (normalize_parent_id(parent_id), order),  *)
(* the parent id compared as a string.                                     *)
(***************************************************************************)
\* the order in which the latest pass processed the tasks of section s
ProcessingOrder(s) == sorted_section_tasks(last.seen, s)

\* the place of task t in a processing order that holds it
PlaceIn(order, t) == CHOOSE i \in DOMAIN order : order[i] = t

\* C32: within a section the pass processes the parentless tasks first,
\* and every subtask after its parent task, at every nesting depth
C32_ParentsFirst ==
    AfterPass
        => \A s \in SectionIds :
              LET order == ProcessingOrder(s)
              IN \A c \in TasksOf(s) :
                    /\ Parentless(c)
                          => \A d \in TasksOf(s) :
                                ~Parentless(d) => PlaceIn(order, c) < PlaceIn(order, d)
                    /\ (~Parentless(c) /\ tasks[c].parent_id \in TasksOf(s))
                          => PlaceIn(order, tasks[c].parent_id) < PlaceIn(order, c)


(***************************************************************************)
(* The inherited slot (get_parent_type, set_parent_type, clear_task_types, *)
(* db.py 265-310; read at labeling.py 640-647, written at 667 and 686,     *)
(* cleared for the direct children of a task whose code changed, 537-541). *)
(***************************************************************************)
\* C33: the inherited slot stored for a subtask reflects the cascade of its
\* current parent: a subtask with no code of its own, which would read the
\* slot when it cascades to its children, has no stored slot when its
\* current parent has no governing code
C33_InheritedSlotCurrent ==
    AfterPass
        => \A c \in Tasks :
              (/\ ~Parentless(c) /\ Eligible(c) /\ TaskType(c) = None
               /\ Eligible(tasks[c].parent_id)
               /\ ~InDisabledSection(c)
               /\ CascadeType(tasks[c].parent_id) = None)
                  => get_parent_type(db, c) = ""


(***************************************************************************)
(* SpecEvents: the type-changed events of a pass (the second result of     *)
(* get_entity_type, labeling.py 83-118), in accounts whose tasks may       *)
(* declare a code or be headers.  call.type_changed holds the entities     *)
(* whose lookup in the latest pass reported a change, call.project_name    *)
(* and call.section_names the names that pass read.                        *)
(***************************************************************************)
EventContents == {<<"a">>, <<"a", "-">>, HeaderPrefix \o <<"a">>}

InitEvents ==
    /\ queue = <<>> /\ updated_ids = <<>> /\ pc = "run" /\ now = 1 /\ last = NoPass
    /\ call = [type_changed |-> {}, project_name |-> <<>>, section_names |-> <<>>]
    /\ \E name \in {<<"W">>, <<"W", "-">>} :
          project = [name |-> name, is_inbox_project |-> FALSE]
    /\ sections = [s \in Sections |-> PlainSection]
    /\ config = PlainConfig
    /\ db = EmptyDB
    /\ \E par \in Shapes, ord \in Orders, con \in [Tasks -> EventContents] :
       \E lab \in {[t \in Tasks |-> <<>>], [t \in Tasks |-> <<next_action>>]} :
          tasks = MkTasks(par, [t \in Tasks |-> NoSectionId], ord, con, lab,
                          [t \in Tasks |-> FALSE], NoDue, NoDue)

\* what the loop keeps of the result r of a pass, and the events it raised
PassLogged(r) ==
    /\ PassDone(r)
    /\ call' = [type_changed |-> r.type_changed,
                project_name |-> project.name,
                section_names |-> [s \in Sections |-> sections[s].name]]

RunPassLogged ==
    /\ pc = "run"
    /\ now' = now
    /\ PassLogged(run(tasks, project, sections, config, db, now))
    /\ pc' = "flush"
    /\ UNCHANGED config

NextEvents == RunPassLogged \/ FlushQueue \/ FlushFail \/ SkipFlush

SpecEvents == InitEvents /\ [][NextEvents]_vars

\* the pass about to run reads the names the pass before it read
NamesAsBefore ==
    /\ last.passes > 0
    /\ project.name = call.project_name
    /\ \A s \in Sections : sections[s].name = call.section_names[s]
    /\ \A t \in Tasks : tasks[t].content = last.seen[t].content

C34_Step ==
    (pc = "run" /\ pc' = "flush" /\ NamesAsBefore) => call'.type_changed = {}

\* C34: when no project, section or task name changed since the pass
\* before, a pass raises no type-changed event for any entity (and so does
\* none of the cleanup such an event starts)
C34_NoEventsWithoutRename == [][C34_Step]_vars


(***************************************************************************)
(* SpecFrame: flat accounts under a sequential project with both the       *)
(* next-action label and the singleton label configured, whose tasks also  *)
(* carry a label the engine knows nothing about                            *)
(* (_add_label, _remove_label, _commit_label_changes, labeling.py          *)
(* 795-831).                                                               *)
(***************************************************************************)
FrameLabelLists ==
    {<<>>, <<waiting>>, <<next_action, waiting>>, <<waiting, focus>>,
     <<focus, waiting, next_action>>, <<focus>>}

InitFrame ==
    /\ InitLoop
    /\ project = [name |-> <<"W", "-">>, is_inbox_project |-> FALSE]
    /\ sections = [s \in Sections |-> PlainSection]
    /\ config = [label |-> next_action, focus_label |-> focus, hide_future |-> 0]
    /\ db = EmptyDB
    /\ \E ord \in Orders, lab \in [Tasks -> FrameLabelLists] :
          tasks = MkTasks([t \in Tasks |-> NoParent], [t \in Tasks |-> NoSectionId],
                          ord, [t \in Tasks |-> <<"a">>], lab,
                          [t \in Tasks |-> FALSE], NoDue, NoDue)

SpecFrame == InitFrame /\ [][Next]_vars

\* the list without the labels the engine manages
Without(list, managed) == SelectSeq(list, LAMBDA l : l \notin managed)

Managed == {config.label, config.focus_label}

C36_QueueEmptyAtPass ==
    /\ pc = "run" => queue = <<>>
    /\ pc = "flush" => Len(queue) = last.changes

\* a flush raised (the labels are still the ones the pass read although
\* it queued updates) and the loop is about to start the next pass
C36_Witness ==
    /\ pc = "run"
    /\ last.passes > 0 /\ last.changes > 0
    /\ \A t \in Tasks : tasks[t].labels = last.seen[t].labels
    /\ queue = <<>>


(***************************************************************************)
(* SpecAnomaly: flat accounts under a sequential project with hide_future  *)
(* set, in which a task may carry a due date that strptime cannot read or  *)
(* a parent_id that names no task of the snapshot (_apply_hide_future,     *)
(* labeling.py 691-711; the child lists of _process_task, 493-495).        *)
(***************************************************************************)
MissingTaskId == FirstTaskId + NumTasks

\* a due date with a time of day
DueWithTime == <<0, 9>>

\* per task <<parent_id, due>>: usual, unreadable due date, missing parent
AnomalyVariants == {<<NoParent, None>>, <<NoParent, DueWithTime>>, <<MissingTaskId, None>>}

InitAnomaly ==
    /\ InitLoop
    /\ project = [name |-> <<"W", "-">>, is_inbox_project |-> FALSE]
    /\ sections = [s \in Sections |-> PlainSection]
    /\ config = [label |-> next_action, focus_label |-> "", hide_future |-> 1]
    /\ db = EmptyDB
    /\ \E v \in [Tasks -> AnomalyVariants], ord \in Orders,
          lab \in [Tasks -> {<<>>, <<next_action>>}] :
          tasks = MkTasks([t \in Tasks |-> v[t][1]], [t \in Tasks |-> NoSectionId],
                          ord, [t \in Tasks |-> <<"a">>], lab,
                          [t \in Tasks |-> FALSE], [t \in Tasks |-> v[t][2]], NoDue)

SpecAnomaly == InitAnomaly /\ [][Next]_vars

DanglingParent(t) == tasks[t].parent_id = MissingTaskId

UnreadableDue(t) == tasks[t].due # None /\ strptime_days(tasks[t].due) = None

\* C37: with a task whose due date cannot be parsed or whose parent_id
\* names no task in the snapshot, the pass ends with its change count and
\* the other tasks come out by the usual sequential rule: of the
\* parentless tasks the first by order holds the label and no other does
C37_AnomaliesDoNotAbort ==
    AfterPass
        => /\ last.changes = Len(queue)
           /\ \A t \in Tasks :
                 ~DanglingParent(t)
                    => (HoldsNext(t) <=> t = FirstByOrder(EligibleParentless(NoSectionId)))

\* a task with a missing parent comes first by order, the next one carries
\* an unreadable due date and the pass gave it the label
C37_Witness ==
    /\ AfterPass /\ last.changes = 1
    /\ \E d, a \in Tasks :
          /\ DanglingParent(d) /\ UnreadableDue(a)
          /\ \A t \in Tasks : tasks[d].order <= tasks[t].order
          /\ a = FirstByOrder(EligibleParentless(NoSectionId))
          /\ queue = <<[id |-> a, labels |-> <<next_action>>]>>


(***************************************************************************)
(* SpecMakeWinner: the dashboard's make_winner action with its response    *)
(* (webui.py 1148-1187): call.made counts the make_winner requests,        *)
(* call.task_id, call.status and call.winner_task_id are the task, the     *)
(* HTTP status and the winner_task_id field of the latest one.             *)
(***************************************************************************)
\* the response and what the server and the store hold afterwards
make_winner(T, d, t, preview, ts) ==
    IF ~preview.conflict_detected
    THEN [status |-> 400, winner_task_id |-> preview.winner_task_id,
          tasks |-> T, db |-> d]
    ELSE LET w == apply_updates_to_losers(
                      [tasks |-> with_focus(T, t), db |-> mark_focus_active(d, t, ts)],
                      T, preview.updates, ts)
         IN [status |-> 200, winner_task_id |-> preview.winner_task_id,
             tasks |-> w.tasks, db |-> w.db]

MakeWinnerDone(t, r, ts) ==
    /\ call' = [requests |-> call.requests + 1, made |-> call.made + 1,
                task_id |-> Some(t), status |-> r.status,
                winner_task_id |-> r.winner_task_id]
    /\ tasks' = r.tasks
    /\ db' = r.db
    /\ now' = IF r.status = 200 THEN ts ELSE now
    /\ UNCHANGED <<project, sections, config, queue, updated_ids, pc, last>>

MakeWinnerRequest ==
    \E t \in Tasks, ts \in SessionTimes :
        /\ call.requests < MaxRequests
        /\ MakeWinnerDone(t,
              make_winner(tasks, db, t, build_reconcile_preview(tasks, Some(t)), ts), ts)

InitMakeWinner ==
    /\ queue = <<>> /\ updated_ids = <<>> /\ pc = "run" /\ now = 1 /\ last = NoPass
    /\ call = [requests |-> 0, made |-> 0, task_id |-> None, status |-> 0,
               winner_task_id |-> None]
    /\ project = [name |-> <<"W">>, is_inbox_project |-> FALSE]
    /\ sections = [s \in Sections |-> PlainSection]
    /\ config = [label |-> "", focus_label |-> focus, hide_future |-> 0]
    /\ db = EmptyDB
    /\ \E lab \in [Tasks -> {<<>>, <<focus>>}], upd \in [Tasks -> {None, Some(2)}] :
          tasks = MkTasks([t \in Tasks |-> NoParent], [t \in Tasks |-> NoSectionId],
                          [t \in Tasks |-> t - FirstTaskId + 1],
                          [t \in Tasks |-> <<"a">>], lab,
                          [t \in Tasks |-> FALSE], NoDue, upd)

NextMakeWinner == MakeWinnerRequest \/ WebSetFocus \/ WebClearFocus

SpecMakeWinner == InitMakeWinner /\ [][NextMakeWinner]_vars

\* the tasks that carry the focus label
FocusCarriers == {t \in Tasks : Contains(tasks[t].labels, focus)}

C38_Step ==
    call'.made # call.made
        => /\ call'.status = 200 <=> Cardinality(FocusCarriers) >= 2
           /\ call'.status # 200 => (call'.status = 400 /\ tasks' = tasks /\ db' = db)
           /\ call'.status = 200
                 => /\ FocusCarriers' = {call'.task_id[1]}
                    /\ call'.winner_task_id = call'.task_id

\* C38: make_winner on task T succeeds exactly while two or more tasks
\* carry the focus label and otherwise answers 400 and writes nothing;
\* after a success T alone carries the focus label and the response names
\* T as winner_task_id
C38_MakeWinnerLeavesOnlyT == [][C38_Step]_vars


(***************************************************************************)
(* SpecAgree: the three places that name the winner of a focus conflict,   *)
(* asked about one snapshot and one store: the reconcile preview of the    *)
(* dashboard (pick_winner, webui.py 843-853), the engine's reconciler      *)
(* (labeling.py 280-346) and fetch_state's singleton_conflict_winner       *)
(* (webui.py 745-754).                                                     *)
(***************************************************************************)
\* db.get_singleton_assigned_at_map over the focus tasks
get_singleton_assigned_at_map(d, task_ids) ==
    [t \in Range(task_ids) |-> d.singleton[t].assigned_at]

\* fetch_state: winner_task_id
state_winner(T, d) ==
    choose_singleton_winner(T, focus_tasks_of(T), None,
        get_singleton_assigned_at_map(d, focus_tasks_of(T)), None)

\* the task the reconciler of a pass over T and d keeps
engine_winner(T, d, now_ms) ==
    reconcile_singleton_label(NewEngine(d), T, focus, now_ms).winner

InitAgree ==
    /\ queue = <<>> /\ updated_ids = <<>> /\ pc = "done" /\ now = 1 /\ last = NoPass
    /\ call = [returned |-> FALSE, preview |-> None, engine |-> None, state |-> None]
    /\ project = [name |-> <<"W">>, is_inbox_project |-> FALSE]
    /\ sections = [s \in Sections |-> PlainSection]
    /\ config = [label |-> "", focus_label |-> focus, hide_future |-> 0]
    /\ \E st \in StoreStates : db = [EmptyDB EXCEPT !.singleton = st]
    /\ \E lab \in [Tasks -> {<<>>, <<focus>>}], upd \in [Tasks -> {None, Some(1), Some(2)}] :
          tasks = MkTasks([t \in Tasks |-> NoParent], [t \in Tasks |-> NoSectionId],
                          [t \in Tasks |-> t - FirstTaskId + 1],
                          [t \in Tasks |-> <<"a">>], lab,
                          [t \in Tasks |-> FALSE], NoDue, upd)

\* the three are asked, nothing is written
AskWinners ==
    /\ ~call.returned
    /\ call' = [returned |-> TRUE,
                preview |-> build_reconcile_preview(tasks, None).winner_task_id,
                engine |-> engine_winner(tasks, db, now),
                state |-> state_winner(tasks, db)]
    /\ UNCHANGED <<project, sections, tasks, config, db, queue, updated_ids, pc, now, last>>

SpecAgree == InitAgree /\ [][AskWinners]_vars

\* C39: over a conflict the reconcile preview without an explicit winner,
\* the engine's reconciler and /api/state name the same task
C39_WinnersAgree ==
    (call.returned /\ Cardinality(FocusCarriers) >= 2)
        => /\ call.preview = call.engine
           /\ call.engine = call.state

====
